---- MODULE Spec2Model ----
(***************************************************************************)
(* Model of the HeaderGuard worker (src/workers).                          *)
(*                                                                         *)
(*   - fetchWithSmartFallback (utils.ts): probe a URL and classify the     *)
(*     result into one of six outcome variants, escalating over a fixed    *)
(*     list of alternate paths when the first sample is sparse.            *)
(*   - analyzeHeaders (analyzer.ts): turn the generation model's raw text  *)
(*     into a validated result object, or the fixed degraded result.       *)
(*                                                                         *)
(* A JavaScript string is modelled as the sequence of its UTF-16 code      *)
(* units (naturals), so that toLowerCase, trim, endsWith, regular          *)
(* expression replacement, JSON.parse and JSON.stringify are computed      *)
(* character by character as the runtime computes them.                    *)
(***************************************************************************)
EXTENDS Integers, Sequences, FiniteSets, TLC

VARIABLES
    url,        \* classify: the parsed URL under classification
    pc,         \* classify: position in fetchWithSmartFallback
    site,       \* classify: how the origin answers the probes of this call
    probes,     \* classify: the probe requests issued so far, in order
    res,        \* classify: the first probe's response
    altIdx,     \* classify: index of the alternate path being probed
    outcome,    \* classify: the FetchResult the call resolved with
    thrown,     \* classify: TRUE when the call rejected with an error
    gen,        \* recover: what the generation capability produced
    src,        \* recover: how the generated text was derived
    rpc,        \* recover: position in analyzeHeaders
    result,     \* recover: the value analyzeHeaders resolved with
    trace,      \* recover: what analyzeHeaders did on the way
    pin,        \* preprocess: the header map given to preprocessHeaders
    pout,       \* preprocess: the ProcessedHeaders it returned
    cache,      \* app: the HEADER_CACHE namespace, key to stored text
    reqs,       \* app: the requests in flight, each with its position
    degradedKeys \* app: the keys the degraded result was stored under and
                \*      that neither expired nor were cleared since

vars == <<url, pc, site, probes, res, altIdx, outcome, thrown,
          gen, src, rpc, result, trace, pin, pout, cache, reqs,
          degradedKeys>>

cvars == <<url, pc, site, probes, res, altIdx, outcome, thrown>>

rvars == <<gen, src, rpc, result, trace>>

pvars == <<pin, pout>>

avars == <<cache, reqs, degradedKeys>>

\* No header map is preprocessed.
PreprocessIdle == pin = [none |-> TRUE] /\ pout = [none |-> TRUE]

\* No request is served and the cache is not in use.
AppIdle == cache = [none |-> TRUE] /\ reqs = <<>> /\ degradedKeys = {}

----------------------------------------------------------------------------
(* Characters and strings *)

\* The code unit of each character the model writes down.
Ord ==
    "SOH" :> 1 @@ "BS" :> 8 @@ "TAB" :> 9 @@ "LF" :> 10 @@ "FF" :> 12 @@ "CR" :> 13 @@
    " " :> 32 @@ "!" :> 33 @@ "\"" :> 34 @@ "#" :> 35 @@ "$" :> 36 @@ "%" :> 37 @@
    "&" :> 38 @@ "'" :> 39 @@ "(" :> 40 @@ ")" :> 41 @@ "*" :> 42 @@ "+" :> 43 @@
    "," :> 44 @@ "-" :> 45 @@ "." :> 46 @@ "/" :> 47 @@ "0" :> 48 @@ "1" :> 49 @@
    "2" :> 50 @@ "3" :> 51 @@ "4" :> 52 @@ "5" :> 53 @@ "6" :> 54 @@ "7" :> 55 @@
    "8" :> 56 @@ "9" :> 57 @@ ":" :> 58 @@ ";" :> 59 @@ "<" :> 60 @@ "=" :> 61 @@
    ">" :> 62 @@ "?" :> 63 @@ "@" :> 64 @@ "A" :> 65 @@ "B" :> 66 @@ "C" :> 67 @@
    "D" :> 68 @@ "E" :> 69 @@ "F" :> 70 @@ "G" :> 71 @@ "H" :> 72 @@ "I" :> 73 @@
    "J" :> 74 @@ "K" :> 75 @@ "L" :> 76 @@ "M" :> 77 @@ "N" :> 78 @@ "O" :> 79 @@
    "P" :> 80 @@ "Q" :> 81 @@ "R" :> 82 @@ "S" :> 83 @@ "T" :> 84 @@ "U" :> 85 @@
    "V" :> 86 @@ "W" :> 87 @@ "X" :> 88 @@ "Y" :> 89 @@ "Z" :> 90 @@ "[" :> 91 @@
    "\\" :> 92 @@ "]" :> 93 @@ "^" :> 94 @@ "_" :> 95 @@ "TICK" :> 96 @@ "a" :> 97 @@
    "b" :> 98 @@ "c" :> 99 @@ "d" :> 100 @@ "e" :> 101 @@ "f" :> 102 @@ "g" :> 103 @@
    "h" :> 104 @@ "i" :> 105 @@ "j" :> 106 @@ "k" :> 107 @@ "l" :> 108 @@ "m" :> 109 @@
    "n" :> 110 @@ "o" :> 111 @@ "p" :> 112 @@ "q" :> 113 @@ "r" :> 114 @@ "s" :> 115 @@
    "t" :> 116 @@ "u" :> 117 @@ "v" :> 118 @@ "w" :> 119 @@ "x" :> 120 @@ "y" :> 121 @@
    "z" :> 122 @@ "{" :> 123 @@ "|" :> 124 @@ "}" :> 125 @@ "~" :> 126

\* A string literal: the code units of a sequence of characters.
Str(cs) == [i \in 1..Len(cs) |-> Ord[cs[i]]]

\* String.prototype.toLowerCase on one code unit (ASCII range).
LowerChar(c) == IF c >= 65 /\ c <= 90 THEN c + 32 ELSE c

\* String.prototype.toLowerCase
ToLower(s) == [i \in 1..Len(s) |-> LowerChar(s[i])]

\* String.prototype.startsWith
StartsWith(s, p) == Len(p) <= Len(s) /\ SubSeq(s, 1, Len(p)) = p

\* String.prototype.endsWith
EndsWith(s, p) == Len(p) <= Len(s) /\ SubSeq(s, Len(s) - Len(p) + 1, Len(s)) = p

\* Whether p occurs in s at offset i (1-based).
MatchAt(s, p, i) == i + Len(p) - 1 <= Len(s) /\ SubSeq(s, i, i + Len(p) - 1) = p

\* String.prototype.includes
Includes(s, p) == \E i \in 1..(Len(s) + 1) : MatchAt(s, p, i)

----------------------------------------------------------------------------
(* utils.ts: URL classification and smart fetching *)

\* JavaScript null / undefined where a string is expected (no string holds -1).
Null == <<-1>>

\* JavaScript truthiness of a string-or-null value.
Truthy(v) == v /= Null /\ v /= <<>>

\* isAssetURL's extension list, in the order the loop visits it.
assetExtensions == <<
    Str(<<".", "p", "n", "g">>), Str(<<".", "j", "p", "g">>), Str(<<".", "j", "p", "e", "g">>), Str(<<".", "g", "i", "f">>),
    Str(<<".", "w", "e", "b", "p">>), Str(<<".", "s", "v", "g">>), Str(<<".", "i", "c", "o">>), Str(<<".", "c", "s", "s">>),
    Str(<<".", "j", "s">>), Str(<<".", "j", "s", "o", "n">>), Str(<<".", "x", "m", "l">>), Str(<<".", "p", "d", "f">>),
    Str(<<".", "w", "o", "f", "f">>), Str(<<".", "w", "o", "f", "f", "2">>), Str(<<".", "t", "t", "f">>), Str(<<".", "e", "o", "t">>) >>

RECURSIVE FirstMatchingExt(_, _)
\* The for-loop of isAssetURL: the first extension the pathname ends with.
FirstMatchingExt(pathname, i) ==
    IF i > Len(assetExtensions) THEN Null
    ELSE IF EndsWith(pathname, assetExtensions[i]) THEN assetExtensions[i]
    ELSE FirstMatchingExt(pathname, i + 1)

\* A plausible slip: the pathname is compared without lower-casing.
isAssetURL_CaseSensitive(u) == FirstMatchingExt(u.pathname, 1)

\* isAssetURL(url): the matched extension, or null.
isAssetURL(u) == FirstMatchingExt(ToLower(u.pathname), 1)

\* Header names and values the code looks at.
H_server == Str(<<"s", "e", "r", "v", "e", "r">>)
H_contentType == Str(<<"c", "o", "n", "t", "e", "n", "t", "-", "t", "y", "p", "e">>)
H_cfChlBypass == Str(<<"c", "f", "-", "c", "h", "l", "-", "b", "y", "p", "a", "s", "s">>)

\* headers[name] on the object headersToObject builds.
Get(headers, name) == IF name \in DOMAIN headers THEN headers[name] ELSE Null

\* Object.keys(headers).length
HeaderCount(headers) == Cardinality(DOMAIN headers)

\* headersToObject(headers): the same values under lower-cased keys.
headersToObject(hs) ==
    [k \in {ToLower(n) : n \in DOMAIN hs} |->
        hs[CHOOSE n \in DOMAIN hs : ToLower(n) = k]]

\* isBotProtectionResponse's "no match".
NoBot == "null"

\* isBotProtectionResponse(headers, statusCode): the detected type, or null.
isBotProtectionResponse(headers, statusCode) ==
    IF /\ Get(headers, H_server) /= Null
       /\ ToLower(Get(headers, H_server)) = Str(<<"c", "l", "o", "u", "d", "f", "l", "a", "r", "e">>)
       /\ Truthy(Get(headers, H_cfChlBypass))
    THEN "Cloudflare Challenge"
    ELSE IF statusCode = 429 THEN "Rate Limited (429)"
    ELSE IF statusCode = 503
    THEN "Service Unavailable (503) - Possible WAF/bot protection"
    ELSE IF /\ Get(headers, H_server) /= Null
            /\ Includes(ToLower(Get(headers, H_server)), Str(<<"a", "k", "a", "m", "a", "i", "g", "h", "o", "s", "t">>))
    THEN "Akamai Bot Protection"
    ELSE NoBot

\* const serverHeader = headers["server"]?.toLowerCase() || ""
ServerHeaderOf(headers) ==
    IF Truthy(Get(headers, H_server)) THEN ToLower(Get(headers, H_server)) ELSE <<>>

\* const contentType = headers["content-type"] || null
ContentTypeOf(headers) ==
    IF Truthy(Get(headers, H_contentType)) THEN Get(headers, H_contentType) ELSE Null

\* /akamai|ghost|netstorage/.test(serverHeader)
IsCdnServer(serverHeader) ==
    \/ Includes(serverHeader, Str(<<"a", "k", "a", "m", "a", "i">>))
    \/ Includes(serverHeader, Str(<<"g", "h", "o", "s", "t">>))
    \/ Includes(serverHeader, Str(<<"n", "e", "t", "s", "t", "o", "r", "a", "g", "e">>))

\* The sparse-header threshold of fetchWithSmartFallback.
MinHeaders == 5

\* A plausible slip: the landing routes are tried ahead of the locale root.
altPaths_HomeFirst == << Str(<<"/", "h", "o", "m", "e">>), Str(<<"/", "a", "b", "o", "u", "t">>), Str(<<"/", "e", "n", "-", "u", "s", "/">>), Str(<<"/", "i", "n", "d", "e", "x", ".", "h", "t", "m", "l">>) >>

\* The alternate paths of the escalation, in order.
altPaths == << Str(<<"/", "e", "n", "-", "u", "s", "/">>), Str(<<"/", "i", "n", "d", "e", "x", ".", "h", "t", "m", "l">>), Str(<<"/", "h", "o", "m", "e">>), Str(<<"/", "a", "b", "o", "u", "t">>) >>

(* The six FetchResult shapes (the message texts are left out). *)
HTTPOnlyWarning == [isHTTPOnly |-> TRUE]
AssetURLWarning(ext) == [isAsset |-> TRUE, extension |-> ext]
Non200StatusWarning(code, text) ==
    [isNon200 |-> TRUE, statusCode |-> code, statusText |-> text]
BotProtectionWarning(type) == [isBotProtection |-> TRUE, detectedType |-> type]
CDNDetectionResult(server, count) ==
    [isCDN |-> TRUE, detectedServer |-> server, headerCount |-> count]
SuccessfulFetchResult(response, headers, contentType) ==
    [isCDN |-> FALSE, isHTTPOnly |-> FALSE, isAsset |-> FALSE, isNon200 |-> FALSE,
     isBotProtection |-> FALSE, response |-> response, headers |-> headers,
     contentType |-> contentType]

\* No FetchResult yet.
Pending == [pending |-> TRUE]

\* The discriminant tests the caller uses ("isX" in r && r.isX).
IsHTTPOnly(o) == "isHTTPOnly" \in DOMAIN o /\ o.isHTTPOnly
IsAsset(o) == "isAsset" \in DOMAIN o /\ o.isAsset
IsNon200(o) == "isNon200" \in DOMAIN o /\ o.isNon200
IsBotProtection(o) == "isBotProtection" \in DOMAIN o /\ o.isBotProtection
IsCDN(o) == "isCDN" \in DOMAIN o /\ o.isCDN
IsUsable(o) == "headers" \in DOMAIN o

\* A plausible slip: the asset check runs before the scheme check.
EntryDecision_AssetFirst(u) ==
    IF isAssetURL(u) /= Null THEN AssetURLWarning(isAssetURL(u))
    ELSE IF u.protocol = "http:" THEN HTTPOnlyWarning
    ELSE Pending

\* Lines 154-171: what is decided before any network call.
EntryDecision(u) ==
    IF u.protocol = "http:" THEN HTTPOnlyWarning
    ELSE IF Truthy(isAssetURL(u)) THEN AssetURLWarning(isAssetURL(u))
    ELSE Pending

\* A plausible slip: the CDN signature is tested ahead of the bot-protection
\* heuristic and of the content type.
FirstProbeDecision_CdnFirst(r) ==
    LET headers == headersToObject(r.headers)
        serverHeader == ServerHeaderOf(headers)
        contentType == ContentTypeOf(headers)
        bot == isBotProtectionResponse(headers, r.status)
    IN  IF r.status /= 200 THEN Non200StatusWarning(r.status, r.statusText)
        ELSE IF IsCdnServer(serverHeader)
        THEN CDNDetectionResult(serverHeader, HeaderCount(headers))
        ELSE IF bot /= NoBot THEN BotProtectionWarning(bot)
        ELSE IF /\ contentType /= Null
                /\ ~Includes(contentType, Str(<<"t", "e", "x", "t", "/", "h", "t", "m", "l">>))
                /\ ~Includes(contentType, Str(<<"a", "p", "p", "l", "i", "c", "a", "t", "i", "o", "n", "/", "x", "h", "t", "m", "l">>))
        THEN Non200StatusWarning(r.status, Str(<<"N", "o", "n", "-", "H", "T", "M", "L", " ", "C", "o", "n", "t", "e", "n", "t", " ", "(">>) \o contentType \o Str(<<")">>))
        ELSE Pending

\* The intended order of the design notes: bot protection ahead of non-200.
FirstProbeDecision_BotFirst(r) ==
    LET headers == headersToObject(r.headers)
        bot == isBotProtectionResponse(headers, r.status)
    IN  IF bot /= NoBot THEN BotProtectionWarning(bot)
        ELSE IF r.status /= 200 THEN Non200StatusWarning(r.status, r.statusText)
        ELSE Pending

\* Lines 192-235: what the first response decides without a further probe
\* (Pending: the remaining steps decide).
FirstProbeDecision(r) ==
    LET headers == headersToObject(r.headers)
        serverHeader == ServerHeaderOf(headers)
        contentType == ContentTypeOf(headers)
        bot == isBotProtectionResponse(headers, r.status)
    IN  IF r.status /= 200 THEN Non200StatusWarning(r.status, r.statusText)
        ELSE IF bot /= NoBot THEN BotProtectionWarning(bot)
        ELSE IF /\ contentType /= Null
                /\ ~Includes(contentType, Str(<<"t", "e", "x", "t", "/", "h", "t", "m", "l">>))
                /\ ~Includes(contentType, Str(<<"a", "p", "p", "l", "i", "c", "a", "t", "i", "o", "n", "/", "x", "h", "t", "m", "l">>))
        THEN Non200StatusWarning(r.status,
                 Str(<<"N", "o", "n", "-", "H", "T", "M", "L", " ", "C", "o", "n", "t", "e", "n", "t", " ", "(">>) \o contentType \o Str(<<")">>))
        ELSE IF IsCdnServer(serverHeader)
        THEN CDNDetectionResult(serverHeader, HeaderCount(headers))
        ELSE Pending

\* Line 237: the first response is sparse, so the alternate paths are tried.
NeedsEscalation(r) == HeaderCount(headersToObject(r.headers)) < MinHeaders

\* A plausible slip: any completed retry is accepted.
RetryAccepted_AnyStatus(retryRes) ==
    HeaderCount(headersToObject(retryRes.headers)) >= MinHeaders

\* Lines 252-255: the retry response is taken as the result.
RetryAccepted(retryRes) ==
    /\ retryRes.status = 200
    /\ HeaderCount(headersToObject(retryRes.headers)) >= MinHeaders

\* A plausible slip: the retry loop returns the first response's headers.
RetryResult_Original(retryRes, first) ==
    SuccessfulFetchResult(retryRes, headersToObject(first.headers),
                          ContentTypeOf(headersToObject(first.headers)))

\* Lines 259-268: the result built from an accepted retry response.
RetryResult(retryRes, first) ==
    SuccessfulFetchResult(retryRes, headersToObject(retryRes.headers),
                          ContentTypeOf(headersToObject(retryRes.headers)))

\* A plausible slip: the count reported is that of the last retry response.
SparseResult_LastRetry(first, last) ==
    LET headers == headersToObject(first.headers)
        serverHeader == ServerHeaderOf(headers)
    IN  CDNDetectionResult(IF serverHeader /= <<>> THEN serverHeader ELSE Str(<<"u", "n", "k", "n", "o", "w", "n">>),
                           IF last.ok THEN HeaderCount(headersToObject(last.headers))
                           ELSE 0)

\* Lines 276-282: the result when no alternate path gave a richer sample.
SparseResult(first, last) ==
    LET headers == headersToObject(first.headers)
        serverHeader == ServerHeaderOf(headers)
    IN  CDNDetectionResult(IF serverHeader /= <<>> THEN serverHeader ELSE Str(<<"u", "n", "k", "n", "o", "w", "n">>),
                           HeaderCount(headers))

\* Lines 285-294: the first response is the result.
FirstResult(r) ==
    SuccessfulFetchResult(r, headersToObject(r.headers),
                          ContentTypeOf(headersToObject(r.headers)))

----------------------------------------------------------------------------
(* The inputs of classification: URLs and the origin's answers *)

\* The origin of every URL of the model (new URL(url).origin).
Origin == "https://site.example"

\* Pathnames: asset extensions in either case, look-alikes, and a page that
\* is also one of the alternate paths.
Pathnames ==
    {Str(<<"/">>), Str(<<"/", "a", ".", "p", "n", "g", "/", "b">>), Str(<<"/", "A", ".", "P", "N", "G">>), Str(<<"/", "a", ".", "J", "s">>), Str(<<"/", "d", "i", "r", ".", "c", "s", "s", "/", "a", ".", "w", "o", "f", "f", "2">>), Str(<<"/", "a", "b", "o", "u", "t">>)}
    \cup {Str(<<"/", "a">>) \o assetExtensions[i] : i \in DOMAIN assetExtensions}

\* new URL(url): the parts the code reads.
Urls == [protocol : {"http:", "https:"}, origin : {Origin}, pathname : Pathnames]

\* Largest number of headers a first response carries besides the three named.
MaxFiller == 3

\* The name of the i-th other header ("x-1", "x-2", ...).
Filler(i) == Str(<<"x", "-">>) \o <<48 + i>>

\* A Headers object: server, content-type, cf-chl-bypass (each optional) and
\* nf other headers.
MkHeaders(srv, ct, chl, nf) ==
    LET names == (IF srv = Null THEN {} ELSE {H_server})
                 \cup (IF ct = Null THEN {} ELSE {H_contentType})
                 \cup (IF chl = Null THEN {} ELSE {H_cfChlBypass})
                 \cup {Filler(i) : i \in 1..nf}
    IN  [n \in names |->
            IF n = H_server THEN srv
            ELSE IF n = H_contentType THEN ct
            ELSE IF n = H_cfChlBypass THEN chl
            ELSE Str(<<"1">>)]

Statuses == {200, 404, 429, 503}

\* Response.statusText
StatusText(st) ==
    CASE st = 200 -> Str(<<"O", "K">>)
      [] st = 404 -> Str(<<"N", "o", "t", " ", "F", "o", "u", "n", "d">>)
      [] st = 429 -> Str(<<"T", "o", "o", " ", "M", "a", "n", "y", " ", "R", "e", "q", "u", "e", "s", "t", "s">>)
      [] st = 503 -> Str(<<"S", "e", "r", "v", "i", "c", "e", " ", "U", "n", "a", "v", "a", "i", "l", "a", "b", "l", "e">>)

ServerValues == {Null, Str(<<"n", "g", "i", "n", "x">>), Str(<<"C", "l", "o", "u", "d", "f", "l", "a", "r", "e">>), Str(<<"A", "k", "a", "m", "a", "i", "G", "H", "o", "s", "t">>), Str(<<"N", "e", "t", "S", "t", "o", "r", "a", "g", "e">>)}

ContentTypes == {Null, Str(<<"t", "e", "x", "t", "/", "h", "t", "m", "l", ";", " ", "c", "h", "a", "r", "s", "e", "t", "=", "u", "t", "f", "-", "8">>), Str(<<"a", "p", "p", "l", "i", "c", "a", "t", "i", "o", "n", "/", "x", "h", "t", "m", "l", "+", "x", "m", "l">>),
                 Str(<<"a", "p", "p", "l", "i", "c", "a", "t", "i", "o", "n", "/", "j", "s", "o", "n">>)}

ChlValues == {Null, Str(<<"1">>)}

\* A completed fetch: the final response after redirect following.
Response(st, hs) == [ok |-> TRUE, status |-> st, statusText |-> StatusText(st), headers |-> hs]

\* A fetch that rejected (DNS failure, refused connection, timeout).
TransportFailure == [ok |-> FALSE]

FirstResponses ==
    {Response(st, MkHeaders(srv, ct, chl, nf)) :
        st \in Statuses, srv \in ServerValues, ct \in ContentTypes,
        chl \in ChlValues, nf \in 0..MaxFiller}
    \cup {TransportFailure}

\* Answers of the alternate paths: a rich page (8 headers), a second rich page
\* (5 headers, served by an edge as JSON), a sparse page (4 headers), a rich 404.
AltRich == Response(200, MkHeaders(Str(<<"n", "g", "i", "n", "x">>), Str(<<"t", "e", "x", "t", "/", "h", "t", "m", "l", ";", " ", "c", "h", "a", "r", "s", "e", "t", "=", "u", "t", "f", "-", "8">>), Null, 6))
AltRichEdge == Response(200, MkHeaders(Str(<<"A", "k", "a", "m", "a", "i", "G", "H", "o", "s", "t">>), Str(<<"a", "p", "p", "l", "i", "c", "a", "t", "i", "o", "n", "/", "j", "s", "o", "n">>), Null, 3))
AltSparse == Response(200, MkHeaders(Str(<<"n", "g", "i", "n", "x">>), Str(<<"t", "e", "x", "t", "/", "h", "t", "m", "l", ";", " ", "c", "h", "a", "r", "s", "e", "t", "=", "u", "t", "f", "-", "8">>), Null, 2))
AltNotFound == Response(404, MkHeaders(Str(<<"n", "g", "i", "n", "x">>), Str(<<"t", "e", "x", "t", "/", "h", "t", "m", "l", ";", " ", "c", "h", "a", "r", "s", "e", "t", "=", "u", "t", "f", "-", "8">>), Null, 6))

AltResponses == {TransportFailure, AltSparse, AltNotFound, AltRich, AltRichEdge}

\* How the origin answers each alternate path, in the order of altPaths: every
\* mix of failing, sparse and rich answers, and the 404 and edge answers at
\* each position.
AltProfiles ==
    [DOMAIN altPaths -> {TransportFailure, AltSparse, AltRich}]
    \cup {[i \in DOMAIN altPaths |-> IF i = j THEN a ELSE b] :
            j \in DOMAIN altPaths, a \in {AltNotFound, AltRichEdge},
            b \in {TransportFailure, AltRich}}

\* The origin during one call: its answer to the first probe and to each
\* alternate path.
Sites == [first : FirstResponses, alts : AltProfiles]

NoSite == [none |-> TRUE]
NoResponse == [none |-> TRUE]

----------------------------------------------------------------------------
(* fetchWithSmartFallback, one action per stretch between awaits *)

\* fetch(target, {method: "HEAD", redirect: "follow", ...}) is issued.
Probe(origin, path) == [method |-> "HEAD", origin |-> origin, path |-> path]

\* Lines 154-190: the checks that need no network, then the first probe.
Begin ==
    /\ pc = "start"
    /\ IF EntryDecision(url) /= Pending
       THEN /\ outcome' = EntryDecision(url)
            /\ pc' = "done"
            /\ UNCHANGED <<site, probes>>
       ELSE /\ \E s \in Sites : site' = s
            /\ probes' = Append(probes, Probe(url.origin, url.pathname))
            /\ pc' = "probe1"
            /\ UNCHANGED outcome
    /\ UNCHANGED <<url, res, altIdx, thrown>>

\* A plausible slip: the rejection is reported as a failed response.
FirstProbeCatch_AsOutcome(error) ==
    [thrown |-> FALSE, outcome |-> Non200StatusWarning(0, <<>>)]

\* Lines 188-190: the catch clause of the first probe throws the error again;
\* no FetchResult is returned.
FirstProbeCatch(error) == [thrown |-> TRUE, outcome |-> Pending]

\* Lines 188-190: the first probe rejects and the error is rethrown.
FirstProbeFails ==
    /\ pc = "probe1"
    /\ ~site.first.ok
    /\ thrown' = FirstProbeCatch(site.first).thrown
    /\ outcome' = FirstProbeCatch(site.first).outcome
    /\ pc' = "done"
    /\ UNCHANGED <<url, site, probes, res, altIdx>>

\* Lines 192-294: the first probe completes; the response is classified, and
\* when it is sparse the first alternate path is probed.
FirstProbeReturns ==
    /\ pc = "probe1"
    /\ site.first.ok
    /\ res' = site.first
    /\ IF FirstProbeDecision(site.first) /= Pending
       THEN /\ outcome' = FirstProbeDecision(site.first)
            /\ pc' = "done"
            /\ UNCHANGED <<probes, altIdx>>
       ELSE IF NeedsEscalation(site.first)
       THEN /\ altIdx' = 1
            /\ probes' = Append(probes, Probe(url.origin, altPaths[1]))
            /\ pc' = "alt"
            /\ UNCHANGED outcome
       ELSE /\ outcome' = FirstResult(site.first)
            /\ pc' = "done"
            /\ UNCHANGED <<probes, altIdx>>
    /\ UNCHANGED <<url, site, thrown>>

\* The loop moves on: the next alternate path is probed, or the loop ends
\* and the sparse first response is reported (lines 240, 276-282).
NextCandidate(last) ==
    IF altIdx < Len(altPaths)
    THEN /\ altIdx' = altIdx + 1
         /\ probes' = Append(probes, Probe(url.origin, altPaths[altIdx + 1]))
         /\ UNCHANGED <<pc, outcome>>
    ELSE /\ outcome' = SparseResult(res, last)
         /\ pc' = "done"
         /\ UNCHANGED <<probes, altIdx>>

\* Lines 270-273: the probe of an alternate path rejects; the loop continues.
AltProbeFails ==
    /\ pc = "alt"
    /\ ~site.alts[altIdx].ok
    /\ NextCandidate(site.alts[altIdx])
    /\ UNCHANGED <<url, site, res, thrown>>

\* Lines 243-269: the probe of an alternate path completes.
AltProbeReturns ==
    /\ pc = "alt"
    /\ site.alts[altIdx].ok
    /\ IF RetryAccepted(site.alts[altIdx])
       THEN /\ outcome' = RetryResult(site.alts[altIdx], res)
            /\ pc' = "done"
            /\ UNCHANGED <<probes, altIdx>>
       ELSE NextCandidate(site.alts[altIdx])
    /\ UNCHANGED <<url, site, res, thrown>>

\* The recovery parser is idle while a URL is classified.
RecoverIdle ==
    /\ gen = [kind |-> "none"]
    /\ src = [kind |-> "none"]
    /\ rpc = "idle"
    /\ result = [none |-> TRUE]
    /\ trace = [none |-> TRUE]

InitClassify ==
    /\ url \in Urls
    /\ pc = "start"
    /\ site = NoSite
    /\ probes = <<>>
    /\ res = NoResponse
    /\ altIdx = 0
    /\ outcome = Pending
    /\ thrown = FALSE
    /\ RecoverIdle
    /\ PreprocessIdle
    /\ AppIdle

NextClassify ==
    \/ Begin /\ UNCHANGED <<rvars, pvars, avars>>
    \/ FirstProbeFails /\ UNCHANGED <<rvars, pvars, avars>>
    \/ FirstProbeReturns /\ UNCHANGED <<rvars, pvars, avars>>
    \/ AltProbeFails /\ UNCHANGED <<rvars, pvars, avars>>
    \/ AltProbeReturns /\ UNCHANGED <<rvars, pvars, avars>>

SpecClassify == InitClassify /\ [][NextClassify]_vars

----------------------------------------------------------------------------
(* JSON values, JSON.parse and JSON.stringify *)

(* A JSON value carries its type in t.  A number is kept as the decimal      *)
(* m * 10^x with m not divisible by 10 (0 is m = 0, x = 0), so that equal    *)
(* numbers are equal records.  An object is the sequence of its members in   *)
(* insertion order, with distinct keys.                                      *)
JNull == [t |-> "null"]
JBool(b) == [t |-> "bool", b |-> b]
JStr(s) == [t |-> "str", s |-> s]
JArr(items) == [t |-> "arr", a |-> items]
JObj(members) == [t |-> "obj", o |-> members]
Member(k, v) == [k |-> k, v |-> v]

RECURSIVE Canon(_, _)
\* The canonical (m, x) of m * 10^x.
Canon(m, x) ==
    IF m = 0 THEN [m |-> 0, x |-> 0]
    ELSE IF m % 10 = 0 THEN Canon(m \div 10, x + 1)
    ELSE [m |-> m, x |-> x]

JNum(m, x) == [t |-> "num", m |-> Canon(m, x).m, x |-> Canon(m, x).x]
JInt(n) == JNum(n, 0)

\* The outcome of a parse step: a value and the position after it, or a
\* SyntaxError of one of two kinds: "ctrl" (the message reads "Bad control
\* character in string literal ...") and "other" (any other message).
Ok(v, i) == [ok |-> TRUE, v |-> v, i |-> i]
Err(kind) == [ok |-> FALSE, e |-> kind]

\* JSON whitespace: space, tab, line feed, carriage return.
IsJsonWs(c) == c \in {32, 9, 10, 13}

IsDigit(c) == c >= 48 /\ c <= 57

IsHex(c) == IsDigit(c) \/ (c >= 97 /\ c <= 102) \/ (c >= 65 /\ c <= 70)

HexVal(c) == IF IsDigit(c) THEN c - 48 ELSE IF c >= 97 THEN c - 87 ELSE c - 55

RECURSIVE SkipWs(_, _)
SkipWs(s, i) == IF i <= Len(s) /\ IsJsonWs(s[i]) THEN SkipWs(s, i + 1) ELSE i

\* The character a one-letter escape stands for (\" \\ \/ \b \f \n \r \t).
Unescape(d) ==
    CASE d = 34 -> 34 [] d = 92 -> 92 [] d = 47 -> 47 [] d = 98 -> 8
      [] d = 102 -> 12 [] d = 110 -> 10 [] d = 114 -> 13 [] d = 116 -> 9

IsSimpleEscape(d) == d \in {34, 92, 47, 98, 102, 110, 114, 116}

\* The characters that end a run of plain characters inside a string
\* literal: the quote, the backslash and the control characters.
StringSpecials == {34, 92} \cup 0..31

RECURSIVE FirstIn(_, _, _, _)
\* The first index in lo..hi whose character is in C, or 0 (the range is
\* halved so that long texts do not nest deeply).
FirstIn(s, C, lo, hi) ==
    IF lo > hi THEN 0
    ELSE IF lo = hi THEN (IF s[lo] \in C THEN lo ELSE 0)
    ELSE LET mid == (lo + hi) \div 2
             l == FirstIn(s, C, lo, mid)
         IN  IF l /= 0 THEN l ELSE FirstIn(s, C, mid + 1, hi)

RECURSIVE ScanString(_, _, _)
RECURSIVE ScanStringTo(_, _, _, _)

\* A string literal from position i inside it (acc: the characters decoded
\* so far): the plain characters up to the next special one, j, are taken at
\* once.
ScanString(s, i, acc) ==
    ScanStringTo(s, acc \o SubSeq(s, i, FirstIn(s, StringSpecials, i, Len(s)) - 1),
                 FirstIn(s, StringSpecials, i, Len(s)), Len(s))

\* At the special character j: the quote that ends the literal, a control
\* character, or an escape.
ScanStringTo(s, acc, j, n) ==
    IF j = 0 THEN Err("other")
    ELSE IF s[j] = 34 THEN Ok(JStr(acc), j + 1)
    ELSE IF s[j] < 32 THEN Err("ctrl")
    ELSE IF j + 1 > n THEN Err("other")
    ELSE IF IsSimpleEscape(s[j + 1])
    THEN ScanString(s, j + 2, Append(acc, Unescape(s[j + 1])))
    ELSE IF /\ s[j + 1] = 117
            /\ j + 5 <= n
            /\ \A k \in 2..5 : IsHex(s[j + k])
    THEN ScanString(s, j + 6,
             Append(acc, 4096 * HexVal(s[j + 2]) + 256 * HexVal(s[j + 3])
                         + 16 * HexVal(s[j + 4]) + HexVal(s[j + 5])))
    ELSE Err("other")

RECURSIVE ScanDigits(_, _, _, _)
\* A run of digits from i: its value appended to acc, its length, its end.
ScanDigits(s, i, acc, cnt) ==
    IF i <= Len(s) /\ IsDigit(s[i])
    THEN ScanDigits(s, i + 1, 10 * acc + (s[i] - 48), cnt + 1)
    ELSE [v |-> acc, n |-> cnt, i |-> i]

\* The number read: mantissa frac.v with frac.n decimals, exponent exp,
\* negative when neg; it ends before position i.
NumberRead(neg, frac, exp, i) ==
    Ok(JNum(IF neg THEN 0 - frac.v ELSE frac.v, exp - frac.n), i)

\* The digits of an exponent have been read.
ScanExpDigits(neg, frac, expNeg, exp) ==
    IF exp.n = 0 THEN Err("other")
    ELSE NumberRead(neg, frac, IF expNeg THEN 0 - exp.v ELSE exp.v, exp.i)

\* After the fraction, at position k: ([eE] [+-]? [0-9]+)?
ScanExp(s, neg, frac, k) ==
    IF ~(k <= Len(s) /\ s[k] \in {101, 69}) THEN NumberRead(neg, frac, 0, k)
    ELSE IF k + 1 <= Len(s) /\ s[k + 1] \in {43, 45}
    THEN ScanExpDigits(neg, frac, s[k + 1] = 45, ScanDigits(s, k + 2, 0, 0))
    ELSE ScanExpDigits(neg, frac, FALSE, ScanDigits(s, k + 1, 0, 0))

\* The digits of a fraction have been read.
ScanFracDigits(s, neg, frac) ==
    IF frac.n = 0 THEN Err("other") ELSE ScanExp(s, neg, frac, frac.i)

\* After the integer part int, which started at i1: (. [0-9]+)?
ScanFrac(s, neg, i1, int) ==
    IF int.n = 0 THEN Err("other")
    ELSE IF int.n > 1 /\ s[i1] = 48 THEN Err("other")
    ELSE IF int.i <= Len(s) /\ s[int.i] = 46
    THEN ScanFracDigits(s, neg, ScanDigits(s, int.i + 1, int.v, 0))
    ELSE ScanExp(s, neg, [v |-> int.v, n |-> 0, i |-> int.i], int.i)

\* A number from i: -? (0 | [1-9][0-9]*) (. [0-9]+)? ([eE] [+-]? [0-9]+)?
ScanNumber(s, i) ==
    IF s[i] = 45
    THEN ScanFrac(s, TRUE, i + 1, ScanDigits(s, i + 1, 0, 0))
    ELSE ScanFrac(s, FALSE, i, ScanDigits(s, i, 0, 0))

RECURSIVE PutMember(_, _, _, _)
\* obj[k] = v on the members so far: a repeated key keeps its place and
\* takes the later value.
PutMember(members, k, v, i) ==
    IF i > Len(members) THEN Append(members, Member(k, v))
    ELSE IF members[i].k = k THEN [members EXCEPT ![i] = Member(k, v)]
    ELSE PutMember(members, k, v, i + 1)

RECURSIVE ParseValue(_, _)
RECURSIVE ValueAt(_, _)
RECURSIVE ArrayFrom(_, _, _)
RECURSIVE ObjectFrom(_, _, _)
RECURSIVE ParseElements(_, _, _)
RECURSIVE ElementRead(_, _, _)
RECURSIVE ElementsNext(_, _, _)
RECURSIVE ParseMembers(_, _, _)
RECURSIVE MemberKey(_, _, _)
RECURSIVE MemberColon(_, _, _)
RECURSIVE MemberValue(_, _, _, _)
RECURSIVE MemberRead(_, _, _, _)
RECURSIVE MembersNext(_, _, _)

\* The elements of an array from i (an element's position).
ParseElements(s, i, acc) == ElementRead(s, acc, ParseValue(s, i))

\* An element has been read, with result r.
ElementRead(s, acc, r) ==
    IF ~r.ok THEN r ELSE ElementsNext(s, Append(acc, r.v), SkipWs(s, r.i))

\* After an element, at position k: a comma or the closing bracket.
ElementsNext(s, acc, k) ==
    IF k > Len(s) THEN Err("other")
    ELSE IF s[k] = 44 THEN ParseElements(s, k + 1, acc)
    ELSE IF s[k] = 93 THEN Ok(JArr(acc), k + 1)
    ELSE Err("other")

\* The members of an object from i (before a key).
ParseMembers(s, i, acc) == MemberKey(s, acc, SkipWs(s, i))

\* At position j a key must start.
MemberKey(s, acc, j) ==
    IF j > Len(s) \/ s[j] /= 34 THEN Err("other")
    ELSE MemberColon(s, acc, ScanString(s, j + 1, <<>>))

\* A key has been read, with result key.
MemberColon(s, acc, key) ==
    IF ~key.ok THEN key ELSE MemberValue(s, acc, key.v.s, SkipWs(s, key.i))

\* At position c the colon must stand, and a value follows.
MemberValue(s, acc, k, c) ==
    IF c > Len(s) \/ s[c] /= 58 THEN Err("other")
    ELSE MemberRead(s, acc, k, ParseValue(s, c + 1))

\* A member's value has been read, with result r.
MemberRead(s, acc, k, r) ==
    IF ~r.ok THEN r ELSE MembersNext(s, PutMember(acc, k, r.v, 1), SkipWs(s, r.i))

\* After a member, at position k: a comma or the closing brace.
MembersNext(s, acc, k) ==
    IF k > Len(s) THEN Err("other")
    ELSE IF s[k] = 44 THEN ParseMembers(s, k + 1, acc)
    ELSE IF s[k] = 125 THEN Ok(JObj(acc), k + 1)
    ELSE Err("other")

\* After "[" at i, with k the next position that is not whitespace.
ArrayFrom(s, i, k) ==
    IF k <= Len(s) /\ s[k] = 93 THEN Ok(JArr(<<>>), k + 1)
    ELSE ParseElements(s, i, <<>>)

\* After "{" at i, with k the next position that is not whitespace.
ObjectFrom(s, i, k) ==
    IF k <= Len(s) /\ s[k] = 125 THEN Ok(JObj(<<>>), k + 1)
    ELSE ParseMembers(s, i, <<>>)

\* One JSON value from i, after leading whitespace.
ParseValue(s, i) == ValueAt(s, SkipWs(s, i))

\* One JSON value that starts at j.
ValueAt(s, j) ==
    IF j > Len(s) THEN Err("other")
    ELSE IF s[j] = 34 THEN ScanString(s, j + 1, <<>>)
    ELSE IF s[j] = 123 THEN ObjectFrom(s, j + 1, SkipWs(s, j + 1))
    ELSE IF s[j] = 91 THEN ArrayFrom(s, j + 1, SkipWs(s, j + 1))
    ELSE IF s[j] = 45 \/ IsDigit(s[j]) THEN ScanNumber(s, j)
    ELSE IF MatchAt(s, Str(<<"t", "r", "u", "e">>), j) THEN Ok(JBool(TRUE), j + 4)
    ELSE IF MatchAt(s, Str(<<"f", "a", "l", "s", "e">>), j) THEN Ok(JBool(FALSE), j + 5)
    ELSE IF MatchAt(s, Str(<<"n", "u", "l", "l">>), j) THEN Ok(JNull, j + 4)
    ELSE Err("other")

\* Nothing but whitespace may follow the value.
ParseEnd(s, r) ==
    IF ~r.ok THEN r
    ELSE IF SkipWs(s, r.i) <= Len(s) THEN Err("other")
    ELSE r

\* JSON.parse(text): the value, or the SyntaxError thrown.
JSONparse(s) == ParseEnd(s, ParseValue(s, 1))

\* The hexadecimal digit (lower case) of d in 0..15.
HexDigit(d) == IF d < 10 THEN 48 + d ELSE 87 + d

\* JSON.stringify's escape of one character of a string.
QuoteChar(c) ==
    CASE c = 34 -> <<92, 34>>
      [] c = 92 -> <<92, 92>>
      [] c = 8 -> <<92, 98>>
      [] c = 12 -> <<92, 102>>
      [] c = 10 -> <<92, 110>>
      [] c = 13 -> <<92, 114>>
      [] c = 9 -> <<92, 116>>
      [] OTHER -> IF c < 32
                  THEN <<92, 117, 48, 48, HexDigit(c \div 16), HexDigit(c % 16)>>
                  ELSE <<c>>

RECURSIVE QuoteChars(_, _, _)
\* The escapes of the characters lo..hi of s, in order.
QuoteChars(s, lo, hi) ==
    IF lo > hi THEN <<>>
    ELSE IF lo = hi THEN QuoteChar(s[lo])
    ELSE QuoteChars(s, lo, (lo + hi) \div 2) \o QuoteChars(s, (lo + hi) \div 2 + 1, hi)

\* JSON.stringify of a string.
Quote(s) == <<34>> \o QuoteChars(s, 1, Len(s)) \o <<34>>

RECURSIVE DigitsOf(_)
\* The decimal digits of a natural number.
DigitsOf(n) == IF n < 10 THEN <<48 + n>> ELSE DigitsOf(n \div 10) \o <<48 + (n % 10)>>

RECURSIVE Zeros(_)
Zeros(k) == IF k <= 0 THEN <<>> ELSE <<48>> \o Zeros(k - 1)

\* Number.prototype.toString of m * 10^x (plain decimal notation).
NumberToString(m, x) ==
    LET abs == IF m < 0 THEN 0 - m ELSE m
        ds == DigitsOf(abs)
        sign == IF m < 0 THEN <<45>> ELSE <<>>
    IN  IF x >= 0 THEN sign \o ds \o Zeros(x)
        ELSE IF Len(ds) > 0 - x
        THEN sign \o SubSeq(ds, 1, Len(ds) + x) \o <<46>> \o SubSeq(ds, Len(ds) + x + 1, Len(ds))
        ELSE sign \o <<48, 46>> \o Zeros((0 - x) - Len(ds)) \o ds

RECURSIVE Stringify(_)
RECURSIVE StringifyElements(_, _)
RECURSIVE StringifyMembers(_, _)

StringifyElements(items, i) ==
    IF i > Len(items) THEN <<>>
    ELSE (IF i > 1 THEN <<44>> ELSE <<>>) \o Stringify(items[i])
         \o StringifyElements(items, i + 1)

StringifyMembers(members, i) ==
    IF i > Len(members) THEN <<>>
    ELSE (IF i > 1 THEN <<44>> ELSE <<>>) \o Quote(members[i].k) \o <<58>>
         \o Stringify(members[i].v) \o StringifyMembers(members, i + 1)

\* JSON.stringify(value), without indentation.
Stringify(v) ==
    CASE v.t = "null" -> Str(<<"n", "u", "l", "l">>)
      [] v.t = "bool" -> IF v.b THEN Str(<<"t", "r", "u", "e">>) ELSE Str(<<"f", "a", "l", "s", "e">>)
      [] v.t = "num" -> NumberToString(v.m, v.x)
      [] v.t = "str" -> Quote(v.s)
      [] v.t = "arr" -> <<91>> \o StringifyElements(v.a, 1) \o <<93>>
      [] v.t = "obj" -> <<123>> \o StringifyMembers(v.o, 1) \o <<125>>

----------------------------------------------------------------------------
(* analyzer.ts: recovery of the generation model's reply *)

\* White space removed by String.prototype.trim.
TrimWs == {9, 10, 11, 12, 13, 32, 160, 8232, 8233, 65279}

RECURSIVE FirstNotIn(_, _, _, _)
\* The first index in lo..hi whose character is not in C, or 0.
FirstNotIn(s, C, lo, hi) ==
    IF lo > hi THEN 0
    ELSE IF lo = hi THEN (IF s[lo] \notin C THEN lo ELSE 0)
    ELSE LET mid == (lo + hi) \div 2
             l == FirstNotIn(s, C, lo, mid)
         IN  IF l /= 0 THEN l ELSE FirstNotIn(s, C, mid + 1, hi)

RECURSIVE LastNotIn(_, _, _, _)
\* The last index in lo..hi whose character is not in C, or 0.
LastNotIn(s, C, lo, hi) ==
    IF lo > hi THEN 0
    ELSE IF lo = hi THEN (IF s[lo] \notin C THEN lo ELSE 0)
    ELSE LET mid == (lo + hi) \div 2
             r == LastNotIn(s, C, mid + 1, hi)
         IN  IF r /= 0 THEN r ELSE LastNotIn(s, C, lo, mid)

\* String.prototype.trim
Trim(s) ==
    LET a == FirstNotIn(s, TrimWs, 1, Len(s))
        b == LastNotIn(s, TrimWs, 1, Len(s))
    IN  IF a = 0 THEN <<>> ELSE SubSeq(s, a, b)

Fence == Str(<<"TICK", "TICK", "TICK">>)

RECURSIVE FirstMatch(_, _, _, _)
\* The first index in lo..hi at which p occurs in s, or 0.
FirstMatch(s, p, lo, hi) ==
    IF lo > hi THEN 0
    ELSE IF lo = hi THEN (IF MatchAt(s, p, lo) THEN lo ELSE 0)
    ELSE LET mid == (lo + hi) \div 2
             l == FirstMatch(s, p, lo, mid)
         IN  IF l /= 0 THEN l ELSE FirstMatch(s, p, mid + 1, hi)

RECURSIVE StripOpeningFences(_, _)
\* s.replace(/```json?\n?/g, "") from position i: every "```jso", with the
\* "n" and the line feed that may follow it, is removed.
StripOpeningFences(s, i) ==
    LET m == FirstMatch(s, Str(<<"TICK", "TICK", "TICK", "j", "s", "o">>), i, Len(s))
        j == IF m + 6 <= Len(s) /\ s[m + 6] = 110 THEN m + 7 ELSE m + 6
        k == IF j <= Len(s) /\ s[j] = 10 THEN j + 1 ELSE j
    IN  IF m = 0 THEN SubSeq(s, i, Len(s))
        ELSE SubSeq(s, i, m - 1) \o StripOpeningFences(s, k)

\* s.replace(/```\n?$/g, ""): a fence at the very end, with the line feed that
\* may follow it, is removed.
StripClosingFence(s) ==
    IF EndsWith(s, Fence \o <<10>>) THEN SubSeq(s, 1, Len(s) - 4)
    ELSE IF EndsWith(s, Fence) THEN SubSeq(s, 1, Len(s) - 3)
    ELSE s

\* A plausible slip: the fence markers are removed whether or not the reply
\* starts with one.
NormalizeReply_AlwaysStrip(text) ==
    Trim(StripClosingFence(StripOpeningFences(Trim(text), 1)))

\* Lines 101-108: the reply trimmed and, when it starts with a fence, with
\* the fence markers removed.
NormalizeReply(text) ==
    LET responseText == Trim(text)
    IN  IF StartsWith(responseText, Fence)
        THEN Trim(StripClosingFence(StripOpeningFences(responseText, 1)))
        ELSE responseText

\* A plausible slip: the completeness check is left out.
LooksComplete_Always(responseText) == TRUE

\* Lines 110-111: the text ends with } or ].
LooksComplete(responseText) ==
    LET trimmed == Trim(responseText)
    IN  EndsWith(trimmed, <<125>>) \/ EndsWith(trimmed, <<93>>)

\* A step of the try block: it threw, or it produced v; parses counts the
\* JSON.parse calls made, repaired tells whether the repair pass ran.
Threw(parses, repaired) ==
    [threw |-> TRUE, v |-> JNull, parses |-> parses, repaired |-> repaired]
Produced(v, parses, repaired) ==
    [threw |-> FALSE, v |-> v, parses |-> parses, repaired |-> repaired]

\* Lines 118-123: the decoded literal must be a string.
Decoded(r) ==
    IF ~r.ok THEN Threw(1, FALSE)
    ELSE IF r.v.t /= "str" THEN Threw(1, FALSE)
    ELSE Produced(r.v.s, 1, FALSE)

\* Lines 116-123: a reply that is itself a JSON string literal is decoded once.
DecodeOnce(responseText) ==
    IF StartsWith(responseText, <<34>>) /\ EndsWith(responseText, <<34>>)
    THEN Decoded(JSONparse(responseText))
    ELSE Produced(responseText, 0, FALSE)

\* Lines 160-178: what the repair pass emits for a character inside a string.
EscapeInString(c) ==
    CASE c = 10 -> <<92, 110>>
      [] c = 13 -> <<92, 114>>
      [] c = 9 -> <<92, 116>>
      [] c = 12 -> <<92, 102>>
      [] c = 8 -> <<92, 98>>
      [] OTHER -> IF c < 32
                  THEN <<92, 117, 48, 48, HexDigit(c \div 16), HexDigit(c % 16)>>
                  ELSE <<c>>

\* Lines 139-178: one iteration of the repair loop, on character i of s; st
\* holds the loop's flags and the result built so far.
RepairStep(s, i, st) ==
    IF st.escapeNext
    THEN [inString |-> st.inString, escapeNext |-> FALSE, result |-> Append(st.result, s[i])]
    ELSE IF s[i] = 92
    THEN [inString |-> st.inString, escapeNext |-> TRUE, result |-> Append(st.result, s[i])]
    ELSE IF s[i] = 34 /\ (i = 1 \/ s[i - 1] /= 92)
    THEN [inString |-> ~st.inString, escapeNext |-> FALSE, result |-> Append(st.result, s[i])]
    ELSE IF st.inString
    THEN [inString |-> st.inString, escapeNext |-> FALSE,
          result |-> st.result \o EscapeInString(s[i])]
    ELSE [inString |-> st.inString, escapeNext |-> FALSE, result |-> Append(st.result, s[i])]

RECURSIVE RepairScan(_, _, _, _)
\* Line 138: the loop over the characters lo..hi, from state st. The range is
\* halved, and the first half is finished before the second starts, so that
\* long texts do not nest deeply.
RepairScan(s, lo, hi, st) ==
    IF lo > hi THEN st
    ELSE IF lo = hi THEN RepairStep(s, lo, st)
    ELSE LET half == RepairScan(s, lo, (lo + hi) \div 2, st)
         IN  IF half.inString \in BOOLEAN
             THEN RepairScan(s, (lo + hi) \div 2 + 1, hi, half)
             ELSE half

\* Lines 134-179: the text with the control characters inside strings escaped.
RepairControlChars(jsonText) ==
    RepairScan(jsonText, 1, Len(jsonText),
               [inString |-> FALSE, escapeNext |-> FALSE, result |-> <<>>]).result

\* Line 182: the parse of the repaired text; its error is not caught again.
AfterRepair(second) ==
    IF second.ok THEN Produced(second.v, 2, TRUE) ELSE Threw(2, TRUE)

\* Lines 129-186: the first parse gave first; an error about a control
\* character leads to the repair pass, any other is thrown again.
AfterFirstParse(jsonText, first) ==
    IF first.ok THEN Produced(first.v, 1, FALSE)
    ELSE IF first.e = "ctrl" THEN AfterRepair(JSONparse(RepairControlChars(jsonText)))
    ELSE Threw(1, FALSE)

\* Lines 125-186: JSON.parse, and on a control-character error one parse of
\* the repaired text.
ParseWithRepair(jsonText) == AfterFirstParse(jsonText, JSONparse(jsonText))

\* analysis[key] of a parsed object: the member's value, or undefined.
HasMember(v, key) == v.t = "obj" /\ \E i \in DOMAIN v.o : v.o[i].k = key
MemberOf(v, key) == v.o[CHOOSE i \in DOMAIN v.o : v.o[i].k = key].v

K_score == Str(<<"s", "c", "o", "r", "e">>)
K_summary == Str(<<"s", "u", "m", "m", "a", "r", "y">>)
K_issues == Str(<<"i", "s", "s", "u", "e", "s">>)

\* A plausible slip: issues is only required to be present.
ShapeOk_IssuesAny(analysis) ==
    /\ HasMember(analysis, K_score) /\ MemberOf(analysis, K_score).t = "num"
    /\ HasMember(analysis, K_summary) /\ MemberOf(analysis, K_summary).t = "str"
    /\ HasMember(analysis, K_issues)

\* Lines 188-192: score is a number, summary a string, issues an array (a
\* null analysis throws on the property access, which ends the same way).
ShapeOk(analysis) ==
    /\ HasMember(analysis, K_score) /\ MemberOf(analysis, K_score).t = "num"
    /\ HasMember(analysis, K_summary) /\ MemberOf(analysis, K_summary).t = "str"
    /\ HasMember(analysis, K_issues) /\ MemberOf(analysis, K_issues).t = "arr"

\* Lines 203-218: the fixed degraded result.
Degraded ==
    JObj(<<
        Member(K_score, JInt(50)),
        Member(K_summary, JStr(Str(<<"U", "n", "a", "b", "l", "e", " ", "t", "o", " ", "c", "o", "m", "p", "l", "e", "t", "e", " ", "A", "I", " ", "a", "n", "a", "l", "y", "s", "i", "s", ".", " ", "B", "a", "s", "i", "c", " ", "h", "e", "a", "d", "e", "r", " ", "c", "h", "e", "c", "k", " ", "s", "h", "o", "w", "s", " ", "m", "o", "d", "e", "r", "a", "t", "e", " ", "s", "e", "c", "u", "r", "i", "t", "y", " ", "c", "o", "n", "c", "e", "r", "n", "s", ".">>))),
        Member(K_issues, JArr(<<
            JObj(<<
                Member(Str(<<"n", "a", "m", "e">>), JStr(Str(<<"A", "n", "a", "l", "y", "s", "i", "s", " ", "E", "r", "r", "o", "r">>))),
                Member(Str(<<"s", "e", "v", "e", "r", "i", "t", "y">>), JStr(Str(<<"m", "e", "d", "i", "u", "m">>))),
                Member(Str(<<"h", "e", "a", "d", "e", "r">>), JStr(Str(<<"N", "/", "A">>))),
                Member(Str(<<"c", "u", "r", "r", "e", "n", "t", "_", "v", "a", "l", "u", "e">>), JNull),
                Member(Str(<<"r", "e", "c", "o", "m", "m", "e", "n", "d", "e", "d", "_", "v", "a", "l", "u", "e">>), JStr(Str(<<"N", "/", "A">>))),
                Member(Str(<<"e", "x", "p", "l", "a", "n", "a", "t", "i", "o", "n">>), JStr(Str(<<"T", "h", "e", " ", "A", "I", " ", "a", "n", "a", "l", "y", "s", "i", "s", " ", "f", "a", "i", "l", "e", "d", ".", " ", "P", "l", "e", "a", "s", "e", " ", "t", "r", "y", " ", "a", "g", "a", "i", "n", " ", "o", "r", " ", "c", "o", "n", "t", "a", "c", "t", " ", "s", "u", "p", "p", "o", "r", "t", " ", "i", "f", " ", "t", "h", "e", " ", "i", "s", "s", "u", "e", " ", "p", "e", "r", "s", "i", "s", "t", "s", ".">>)))
            >>)
        >>))
    >>)

\* Lines 188-197: the shape test on what was parsed, after n earlier parses.
CheckShape(n, parsed) ==
    IF parsed.threw THEN Threw(n + parsed.parses, parsed.repaired)
    ELSE IF ~ShapeOk(parsed.v) THEN Threw(n + parsed.parses, parsed.repaired)
    ELSE Produced(parsed.v, n + parsed.parses, parsed.repaired)

\* Lines 121-197: the decoded text is parsed and the result tested.
ParseDecoded(decoded) ==
    IF decoded.threw THEN decoded
    ELSE CheckShape(decoded.parses, ParseWithRepair(decoded.v))

\* Lines 110-197: the completeness test comes before any parse.
CheckComplete(responseText) ==
    IF ~LooksComplete(responseText) THEN Threw(0, FALSE)
    ELSE ParseDecoded(DecodeOnce(responseText))

\* Lines 83-197: the try block on what ai.run produced.
TryBlock(g) ==
    IF g.kind /= "text" THEN Threw(0, FALSE)
    ELSE IF g.text = <<>> THEN Threw(0, FALSE)
    ELSE CheckComplete(NormalizeReply(g.text))

\* A plausible slip: the error is rethrown instead of absorbed.
TryCatch_Rethrow(attempt) ==
    [value |-> attempt.v, rejected |-> attempt.threw, degraded |-> FALSE]

\* Lines 82, 198-219: the catch clause turns every throw into the degraded
\* result; the promise never rejects.
TryCatch(attempt) ==
    [value |-> IF attempt.threw THEN Degraded ELSE attempt.v,
     rejected |-> FALSE,
     degraded |-> attempt.threw]

----------------------------------------------------------------------------
(* The inputs of recovery: what ai.run can produce *)

\* A result object as the model is asked to write it.
Result(score, summary, issues) ==
    JObj(<<Member(K_score, score), Member(K_summary, JStr(summary)),
           Member(K_issues, JArr(issues))>>)

\* A SecurityIssue (types.ts).
Issue(name, severity, header, current, recommended, explanation) ==
    JObj(<<Member(Str(<<"n", "a", "m", "e">>), JStr(name)), Member(Str(<<"s", "e", "v", "e", "r", "i", "t", "y">>), JStr(severity)),
           Member(Str(<<"h", "e", "a", "d", "e", "r">>), JStr(header)), Member(Str(<<"c", "u", "r", "r", "e", "n", "t", "_", "v", "a", "l", "u", "e">>), current),
           Member(Str(<<"r", "e", "c", "o", "m", "m", "e", "n", "d", "e", "d", "_", "v", "a", "l", "u", "e">>), JStr(recommended)),
           Member(Str(<<"e", "x", "p", "l", "a", "n", "a", "t", "i", "o", "n">>), JStr(explanation))>>)

IssueHsts ==
    Issue(Str(<<"M", "i", "s", "s", "i", "n", "g", " ", "H", "S", "T", "S">>), Str(<<"h", "i", "g", "h">>), Str(<<"S", "t", "r", "i", "c", "t", "-", "T", "r", "a", "n", "s", "p", "o", "r", "t", "-", "S", "e", "c", "u", "r", "i", "t", "y">>), JNull,
          Str(<<"m", "a", "x", "-", "a", "g", "e", "=", "3", "1", "5", "3", "6", "0", "0", "0", ";", " ", "i", "n", "c", "l", "u", "d", "e", "S", "u", "b", "D", "o", "m", "a", "i", "n", "s">>), Str(<<"F", "o", "r", "c", "e", "s", " ", "H", "T", "T", "P", "S", ".">>))

IssueFrame ==
    Issue(Str(<<"W", "e", "a", "k", " ", "\"", "X", "-", "F", "r", "a", "m", "e", "-", "O", "p", "t", "i", "o", "n", "s", "\"">>), Str(<<"l", "o", "w">>), Str(<<"X", "-", "F", "r", "a", "m", "e", "-", "O", "p", "t", "i", "o", "n", "s">>), JStr(Str(<<"A", "L", "L", "O", "W", "A", "L", "L">>)),
          Str(<<"D", "E", "N", "Y">>), Str(<<"S", "t", "o", "p", "s", " ", "c", "l", "i", "c", "k", "j", "a", "c", "k", "i", "n", "g", ":", "LF", "TAB", "s", "e", "e", " ", "d", "o", "c", "s", "\\", "\\">>))

\* Scores: in range, out of range, negative, fractional.
Scores == {JInt(0), JInt(7), JInt(100), JInt(1000), JInt(-3), JNum(755, -1)}

\* Summaries, among them characters that JSON escapes, a fence marker and a
\* closing brace.
Summaries ==
    {<<>>, Str(<<"a", " ", "b">>), Str(<<"s", "a", "y", " ", "\"", "h", "i", "\"">>), Str(<<"C", ":", "\\", "d", "i", "r", "\\">>), Str(<<"t", "w", "o", "LF", "l", "i", "n", "e", "s">>), Str(<<"SOH">>),
     Str(<<"TICK", "TICK", "TICK", "j", "s", "o", "n">>), Str(<<"}">>), Str(<<" ", "p", "a", "d", " ">>), <<233>>}

IssueLists == {<<>>, <<IssueHsts>>, <<IssueHsts, IssueFrame>>}

\* Valid results: numeric score, string summary, array of issues.
ValidResults ==
    {Result(sc, sm, is) : sc \in Scores, sm \in Summaries, is \in IssueLists}
    \cup {Degraded}

\* ai.run resolved with { response: text }.
Text(s) == [kind |-> "text", text |-> s]

\* ai.run rejected; resolved with null; resolved without a response; resolved
\* with a response that is not a string.
NonTextOutcomes ==
    {[kind |-> "throw"], [kind |-> "null"], [kind |-> "noresponse"], [kind |-> "nonstring"]}

\* The documents that are cut short and edited: a compact reply, a reply
\* laid out over several lines with one issue, and a reordered one.
CompactDoc == Stringify(Result(JInt(7), Str(<<"a", " ", "b">>), <<>>))

LaidOutDoc ==
    Str(<<"{", "LF", " ", " ", "\"", "s", "c", "o", "r", "e", "\"", ":", " ", "4", "0", ",", "LF", " ", " ", "\"", "s", "u", "m", "m", "a", "r", "y", "\"", ":", " ", "\"", "w", "e", "a", "k", "\"", ",", "LF", " ", " ", "\"", "i", "s", "s", "u", "e", "s", "\"", ":", " ", "[", "LF", " ", " ", " ", " ", "{", "\"", "n", "a", "m", "e", "\"", ":", " ", "\"", "x", "\"", ",", " ", "\"", "c", "u", "r", "r", "e", "n", "t", "_", "v", "a", "l", "u", "e", "\"", ":", " ", "n", "u", "l", "l", "}", "LF", " ", " ", "]", "LF", "}", "LF">>)

\* A reply whose members come in another order, a string last.
ReorderedDoc == Str(<<"{", "\"", "i", "s", "s", "u", "e", "s", "\"", ":", "[", "]", ",", "\"", "s", "c", "o", "r", "e", "\"", ":", "7", ",", "\"", "s", "u", "m", "m", "a", "r", "y", "\"", ":", "\"", "a", " ", "b", "\"", "}">>)

BaseDocs == {CompactDoc, LaidOutDoc, ReorderedDoc}

\* The characters an edit writes into a document.
EditChars == {123, 125, 91, 93, 34, 58, 44, 92, 96, 10, 9, 1, 32, 49, 97, 46}

\* Longest text of the exhaustive short texts.
MaxShort == 2

\* The characters of the exhaustive short texts.
ShortChars == {123, 125, 91, 93, 34, 58, 44, 92, 96, 10, 32, 49, 97}

ShortTexts == UNION {[1..n -> ShortChars] : n \in 0..MaxShort}

\* How a reply is wrapped in a fenced code block.
FenceStyles == {"json", "bare", "json-newline-after", "json-tight"}

Wrap(style, t) ==
    CASE style = "json" -> Str(<<"TICK", "TICK", "TICK", "j", "s", "o", "n", "LF">>) \o t \o Str(<<"LF", "TICK", "TICK", "TICK">>)
      [] style = "bare" -> Str(<<"TICK", "TICK", "TICK", "LF">>) \o t \o Str(<<"LF", "TICK", "TICK", "TICK">>)
      [] style = "json-newline-after" -> Str(<<"TICK", "TICK", "TICK", "j", "s", "o", "n", "LF">>) \o t \o Str(<<"LF", "TICK", "TICK", "TICK", "LF">>)
      [] style = "json-tight" -> Str(<<"TICK", "TICK", "TICK", "j", "s", "o", "n">>) \o t \o Str(<<"TICK", "TICK", "TICK">>)

\* The texts that are wrapped: valid replies (one mentions a fence in its
\* summary), a reply cut short, an empty array, a padded reply.
FenceInners ==
    {CompactDoc, LaidOutDoc,
     Stringify(Result(JInt(7), Str(<<"TICK", "TICK", "TICK", "j", "s", "o", "n">>), <<IssueHsts>>)),
     SubSeq(CompactDoc, 1, Len(CompactDoc) - 1),
     Str(<<"[", "]">>),
     Str(<<" ">>) \o CompactDoc \o Str(<<"LF">>)}

\* The results whose serialization is itself encoded as a string literal.
DoubledResults ==
    {Result(JInt(7), Str(<<"a", " ", "b">>), <<>>), Result(JInt(100), <<>>, <<IssueHsts>>), Degraded}

\* Values that parse but are not results: a member of the wrong type or
\* missing, an array at the top; and a result with a member more.
OtherValues ==
    {JObj(<<Member(K_score, JStr(Str(<<"7">>))), Member(K_summary, JStr(Str(<<"a", " ", "b">>))),
            Member(K_issues, JArr(<<>>))>>),
     JObj(<<Member(K_score, JNull), Member(K_summary, JStr(Str(<<"a", " ", "b">>))),
            Member(K_issues, JArr(<<>>))>>),
     JObj(<<Member(K_score, JInt(7)), Member(K_summary, JInt(1)),
            Member(K_issues, JArr(<<>>))>>),
     JObj(<<Member(K_score, JInt(7)), Member(K_summary, JStr(Str(<<"a", " ", "b">>))),
            Member(K_issues, JObj(<<>>))>>),
     JObj(<<Member(K_score, JInt(7)), Member(K_summary, JStr(Str(<<"a", " ", "b">>))),
            Member(K_issues, JNull)>>),
     JObj(<<Member(K_score, JInt(7)), Member(K_summary, JStr(Str(<<"a", " ", "b">>)))>>),
     JObj(<<Member(K_summary, JStr(Str(<<"a", " ", "b">>))), Member(K_issues, JArr(<<>>))>>),
     JObj(<<>>),
     JArr(<<>>),
     JArr(<<Result(JInt(7), Str(<<"a", " ", "b">>), <<>>)>>),
     JArr(<<JNull>>),
     JObj(<<Member(K_score, JInt(7)), Member(K_summary, JStr(Str(<<"a", " ", "b">>))),
            Member(K_issues, JArr(<<JInt(1)>>)), Member(Str(<<"g", "r", "a", "d", "e">>), JStr(Str(<<"F">>)))>>)}

RECURSIVE RawControls(_, _)
RECURSIVE RawControlsAt(_, _, _)
\* A serialized text from position i with every escaped control character
\* (\n \r \t \f \b and \u00XX below 32) written raw; the escapes of the quote
\* and of the backslash stay.
RawControls(s, i) ==
    IF FirstIn(s, {92}, i, Len(s)) = 0 THEN SubSeq(s, i, Len(s))
    ELSE RawControlsAt(s, i, FirstIn(s, {92}, i, Len(s)))

\* The escape at position j of s.
RawControlsAt(s, i, j) ==
    IF s[j + 1] \in {110, 114, 116, 102, 98}
    THEN SubSeq(s, i, j - 1) \o <<Unescape(s[j + 1])>> \o RawControls(s, j + 2)
    ELSE IF s[j + 1] = 117 /\ s[j + 2] = 48 /\ s[j + 3] = 48 /\ s[j + 4] \in {48, 49}
    THEN SubSeq(s, i, j - 1) \o <<16 * HexVal(s[j + 4]) + HexVal(s[j + 5])>>
         \o RawControls(s, j + 6)
    ELSE SubSeq(s, i, j + 1) \o RawControls(s, j + 2)

\* What ai.run produces (gen), with how the text was derived (src).
GenInputs ==
    {[gen |-> g, src |-> [kind |-> "other"]] : g \in NonTextOutcomes}
    \cup {[gen |-> Text(Stringify(r)), src |-> [kind |-> "serialized", r |-> r]] :
            r \in ValidResults}
    \cup {[gen |-> Text(Wrap(f, t)), src |-> [kind |-> "fenced", style |-> f, inner |-> t]] :
            f \in FenceStyles, t \in FenceInners}
    \cup UNION {{[gen |-> Text(SubSeq(d, 1, k)), src |-> [kind |-> "truncated", doc |-> d]] :
                    k \in 0..(Len(d) - 1)} : d \in BaseDocs}
    \cup UNION {{[gen |-> Text([d EXCEPT ![i] = c]), src |-> [kind |-> "edited", doc |-> d]] :
                    i \in 1..Len(d), c \in EditChars} : d \in BaseDocs}
    \cup {[gen |-> Text(Str(<<" ", "LF">>) \o d \o Str(<<"LF", "TAB", " ">>)), src |-> [kind |-> "padded", doc |-> d]] :
            d \in BaseDocs}
    \cup {[gen |-> Text(s), src |-> [kind |-> "short"]] : s \in ShortTexts}
    \cup {[gen |-> Text(Stringify(JStr(Stringify(r)))), src |-> [kind |-> "doubled", r |-> r]] :
            r \in DoubledResults}
    \cup {[gen |-> Text(RawControls(Stringify(r), 1)), src |-> [kind |-> "rawctl", r |-> r]] :
            r \in ValidResults}
    \cup {[gen |-> Text(Stringify(r)), src |-> [kind |-> "value", r |-> r]] :
            r \in OtherValues}

----------------------------------------------------------------------------
(* analyzeHeaders, one action per stretch between awaits *)

NoGen == [kind |-> "none"]
NoSrc == [kind |-> "none"]
NoResult == [none |-> TRUE]
NoTrace == [none |-> TRUE]

\* Lines 83-90: ai.run settles.
AiRunSettles ==
    /\ rpc = "awaiting"
    /\ \E x \in GenInputs : gen' = x.gen /\ src' = x.src
    /\ rpc' = "settled"
    /\ UNCHANGED <<result, trace>>

\* Lines 197-219: the call resolves with what the try block or the catch
\* clause returns; trace records how it got there.
Return(attempt) ==
    /\ result' = TryCatch(attempt).value
    /\ trace' = [parses |-> attempt.parses,
                 repaired |-> attempt.repaired,
                 degraded |-> TryCatch(attempt).degraded,
                 rejected |-> TryCatch(attempt).rejected]

\* Lines 92-219: the reply is recovered, or the degraded result returned.
Recover ==
    /\ rpc = "settled"
    /\ Return(TryBlock(gen))
    /\ rpc' = "done"
    /\ UNCHANGED <<gen, src>>

\* No URL is classified while a reply is recovered.
ClassifyIdle ==
    /\ url = [none |-> TRUE]
    /\ pc = "idle"
    /\ site = NoSite
    /\ probes = <<>>
    /\ res = NoResponse
    /\ altIdx = 0
    /\ outcome = Pending
    /\ thrown = FALSE

InitRecover ==
    /\ gen = NoGen
    /\ src = NoSrc
    /\ rpc = "awaiting"
    /\ result = NoResult
    /\ trace = NoTrace
    /\ ClassifyIdle
    /\ PreprocessIdle
    /\ AppIdle

NextRecover ==
    \/ AiRunSettles /\ UNCHANGED <<cvars, pvars, avars>>
    \/ Recover /\ UNCHANGED <<cvars, pvars, avars>>

SpecRecover == InitRecover /\ [][NextRecover]_vars

----------------------------------------------------------------------------
(* header-processor.ts: metadata derived from a header map *)

H_setCookie == Str(<<"s", "e", "t", "-", "c", "o", "o", "k", "i", "e">>)
H_csp == Str(<<"c", "o", "n", "t", "e", "n", "t", "-", "s", "e", "c", "u", "r", "i", "t", "y", "-", "p", "o", "l", "i", "c", "y">>)
H_cspReportOnly == Str(<<"c", "o", "n", "t", "e", "n", "t", "-", "s", "e", "c", "u", "r", "i", "t", "y", "-", "p", "o", "l", "i", "c", "y", "-", "r", "e", "p", "o", "r", "t", "-", "o", "n", "l", "y">>)
H_hsts == Str(<<"s", "t", "r", "i", "c", "t", "-", "t", "r", "a", "n", "s", "p", "o", "r", "t", "-", "s", "e", "c", "u", "r", "i", "t", "y">>)

\* The characters of [a-zA-Z0-9_-].
IsCookieNameChar(c) ==
    \/ c >= 97 /\ c <= 122
    \/ c >= 65 /\ c <= 90
    \/ c >= 48 /\ c <= 57
    \/ c = 95
    \/ c = 45

\* The characters \s matches.
RegexWs ==
    {9, 10, 11, 12, 13, 32, 160, 5760, 8232, 8233, 8239, 8287, 12288, 65279}
    \cup 8192..8202

RECURSIVE SkipRegexWs(_, _)
\* \s* from position i: the position after the run of whitespace.
SkipRegexWs(s, i) ==
    IF i <= Len(s) /\ s[i] \in RegexWs THEN SkipRegexWs(s, i + 1) ELSE i

RECURSIVE SkipCookieName(_, _)
\* [a-zA-Z0-9_-]* from position i: the position after the run.
SkipCookieName(s, i) ==
    IF i <= Len(s) /\ IsCookieNameChar(s[i]) THEN SkipCookieName(s, i + 1) ELSE i

\* (?=[a-zA-Z0-9_-]+=) at position j, the name ending before position k.
NameFollows(s, j, k) == k > j /\ k <= Len(s) /\ s[k] = 61

\* /,\s*(?=[a-zA-Z0-9_-]+=)/ at the comma at position c, with j the position
\* after the whitespace: the position after the separator, or 0 when the
\* pattern does not match there.
SeparatorEnd(s, c, j) == IF NameFollows(s, j, SkipCookieName(s, j)) THEN j ELSE 0

RECURSIVE SplitCookies(_, _, _)
RECURSIVE SplitAtComma(_, _, _)
RECURSIVE SplitAtSeparator(_, _, _, _)

\* setCookieHeader.split(/,\s*(?=[a-zA-Z0-9_-]+=)/): the pieces of s from
\* start on, no separator lying before position from.
SplitCookies(s, start, from) ==
    SplitAtComma(s, start, FirstIn(s, {44}, from, Len(s)))

\* The next comma is at position c (0: there is none).
SplitAtComma(s, start, c) ==
    IF c = 0 THEN <<SubSeq(s, start, Len(s))>>
    ELSE SplitAtSeparator(s, start, c, SeparatorEnd(s, c, SkipRegexWs(s, c + 1)))

\* The comma at c starts a separator that ends before e (0: it starts none).
SplitAtSeparator(s, start, c, e) ==
    IF e = 0 THEN SplitCookies(s, start, c + 1)
    ELSE <<SubSeq(s, start, c - 1)>> \o SplitCookies(s, e, e)

\* .filter(Boolean): the pieces that are not empty.
NonEmpty(pieces) == SelectSeq(pieces, LAMBDA p : p /= <<>>)

\* Lines 36-41: the number of cookies whose lower-cased text includes token.
CountWith(cookies, token) ==
    Cardinality({i \in DOMAIN cookies : Includes(ToLower(cookies[i]), token)})

\* Lines 30-48: the counts over the cookies the header was split into.
CountCookies(cookies) ==
    [total |-> Len(cookies),
     secure |-> CountWith(cookies, Str(<<"s", "e", "c", "u", "r", "e">>)),
     httpOnly |-> CountWith(cookies, Str(<<"h", "t", "t", "p", "o", "n", "l", "y">>)),
     sameSite |-> CountWith(cookies, Str(<<"s", "a", "m", "e", "s", "i", "t", "e">>))]

\* analyzeCookies(setCookieHeader)
analyzeCookies(setCookieHeader) ==
    IF ~Truthy(setCookieHeader)
    THEN [total |-> 0, secure |-> 0, httpOnly |-> 0, sameSite |-> 0]
    ELSE CountCookies(NonEmpty(SplitCookies(setCookieHeader, 1, 1)))

\* A plausible slip: the set-cookie header is taken out of the raw headers.
preprocessHeaders_DropsCookie(headers) ==
    [rawHeaders |-> [n \in DOMAIN headers \ {H_setCookie} |-> headers[n]],
     metadata |-> [hasCsp |-> Truthy(Get(headers, H_csp)),
                   hasCspReportOnly |-> Truthy(Get(headers, H_cspReportOnly)),
                   hasHsts |-> Truthy(Get(headers, H_hsts)),
                   cookieStats |-> analyzeCookies(Get(headers, H_setCookie))]]

\* preprocessHeaders(headers)
preprocessHeaders(headers) ==
    [rawHeaders |-> headers,
     metadata |-> [hasCsp |-> Truthy(Get(headers, H_csp)),
                   hasCspReportOnly |-> Truthy(Get(headers, H_cspReportOnly)),
                   hasHsts |-> Truthy(Get(headers, H_hsts)),
                   cookieStats |-> analyzeCookies(Get(headers, H_setCookie))]]

----------------------------------------------------------------------------
(* The header maps preprocessHeaders is applied to *)

\* Cookies as servers send them: attributes in any case, a date with a comma,
\* names with an underscore, a hyphen or a dot.
CookieFragments ==
    {Str(<<"s", "i", "d", "=", "1", ";", " ", "S", "e", "c", "u", "r", "e", ";", " ", "H", "t", "t", "p", "O", "n", "l", "y">>),
     Str(<<"l", "a", "n", "g", "=", "e", "n", ";", " ", "S", "a", "m", "e", "S", "i", "t", "e", "=", "L", "a", "x">>),
     Str(<<"t", "=", "1", ";", " ", "E", "x", "p", "i", "r", "e", "s", "=", "W", "e", "d", ",", " ", "2", "1", " ", "O", "c", "t", " ", "2", "0", "1", "5", " ", "0", "7", ":", "2", "8", ":", "0", "0", " ", "G", "M", "T", ";", " ", "s", "e", "c", "u", "r", "e">>),
     Str(<<"i", "d", "=", "x">>),
     Str(<<"a", "_", "b", "-", "c", "=", "2", ";", " ", "H", "T", "T", "P", "O", "N", "L", "Y", ";", " ", "s", "a", "m", "e", "s", "i", "t", "e", "=", "N", "o", "n", "e", ";", " ", "S", "E", "C", "U", "R", "E">>),
     Str(<<"A", "S", "P", ".", "N", "E", "T", "_", "S", "e", "s", "s", "i", "o", "n", "I", "d", "=", "q", ";", " ", "H", "t", "t", "p", "O", "n", "l", "y">>)}

\* Most cookies folded into one set-cookie value.
MaxCookies == 2

\* How a folded value separates its cookies.
CookieSeparators == {Str(<<",">>), Str(<<",", " ">>)}

RECURSIVE JoinCookies(_, _, _)
\* The cookies from the i-th on, joined by sep.
JoinCookies(cookies, sep, i) ==
    IF i > Len(cookies) THEN <<>>
    ELSE IF i = Len(cookies) THEN cookies[i]
    ELSE cookies[i] \o sep \o JoinCookies(cookies, sep, i + 1)

CookieLists == UNION {[1..n -> CookieFragments] : n \in 1..MaxCookies}

\* The other headers of a map: none, or a policy and transport security.
OtherHeaders ==
    {<<>>,
     [n \in {H_csp, H_hsts} |-> IF n = H_csp THEN Str(<<"d", "e", "f", "a", "u", "l", "t", "-", "s", "r", "c", " ", "'", "s", "e", "l", "f", "'">>) ELSE Str(<<"m", "a", "x", "-", "a", "g", "e", "=", "3", "1", "5", "3", "6", "0", "0", "0">>)],
     [n \in {H_cspReportOnly, H_server} |-> IF n = H_server THEN Str(<<"n", "g", "i", "n", "x">>) ELSE <<>>]}

\* h with the set-cookie header v.
WithCookie(h, v) ==
    [n \in DOMAIN h \cup {H_setCookie} |-> IF n = H_setCookie THEN v ELSE h[n]]

\* The inputs: a header map, and the cookies folded into its set-cookie
\* value (folded: FALSE when the map has no set-cookie header).
PreprocessInputs ==
    {[headers |-> h, folded |-> FALSE, cookies |-> <<>>] : h \in OtherHeaders}
    \cup {[headers |-> WithCookie(h, JoinCookies(cs, sep, 1)), folded |-> TRUE, cookies |-> cs] :
            h \in OtherHeaders, cs \in CookieLists, sep \in CookieSeparators}
    \cup {[headers |-> WithCookie(h, <<>>), folded |-> TRUE, cookies |-> <<>>] : h \in OtherHeaders}

NoInput == [none |-> TRUE]
NoOutput == [none |-> TRUE]

\* analyzer.ts line 64: preprocessHeaders is called with a header map.
ChooseHeaders ==
    /\ pin = NoInput
    /\ pin' \in PreprocessInputs
    /\ UNCHANGED pout

\* header-processor.ts lines 51-69: preprocessHeaders returns.
Preprocess ==
    /\ pin /= NoInput
    /\ pout = NoOutput
    /\ pout' = preprocessHeaders(pin.headers)
    /\ UNCHANGED pin

InitPreprocess ==
    /\ pin = NoInput
    /\ pout = NoOutput
    /\ AppIdle
    /\ ClassifyIdle
    /\ RecoverIdle

NextPreprocess ==
    \/ ChooseHeaders /\ UNCHANGED <<cvars, rvars, avars>>
    \/ Preprocess /\ UNCHANGED <<cvars, rvars, avars>>

SpecPreprocess == InitPreprocess /\ [][NextPreprocess]_vars

----------------------------------------------------------------------------
(* utils.ts: URL normalisation, validation and the cache key *)

AsciiLetters == (65..90) \cup (97..122)

\* The characters of [a-zA-Z0-9-].
DomainLabelChars == AsciiLetters \cup (48..57) \cup {45}

\* The characters "." of a regular expression does not match.
LineTerminators == {10, 13, 8232, 8233}

\* /^https?:\/\//i
HasHttpScheme(s) ==
    \/ StartsWith(ToLower(s), Str(<<"h", "t", "t", "p", ":", "/", "/">>))
    \/ StartsWith(ToLower(s), Str(<<"h", "t", "t", "p", "s", ":", "/", "/">>))

\* The rest of baredomainPattern once the label ends before position dot:
\* a dot, two letters or more, then the end or a slash and the rest of a line.
\* tail is the first position after the letters (0: they reach the end).
BareDomainTail(s, dot, tail) ==
    /\ s[dot] = 46
    /\ IF tail = 0 THEN Len(s) - dot >= 2
       ELSE /\ tail - dot - 1 >= 2
            /\ s[tail] = 47
            /\ FirstIn(s, LineTerminators, tail + 1, Len(s)) = 0

\* The match of baredomainPattern once the label is known to end before dot.
BareDomainFrom(s, dot) ==
    /\ dot > 1
    /\ BareDomainTail(s, dot, FirstNotIn(s, AsciiLetters, dot + 1, Len(s)))

\* /^[a-zA-Z0-9-]+\.[a-zA-Z]{2,}(\/.*)?$/.test(s)
baredomainPattern(s) == BareDomainFrom(s, FirstNotIn(s, DomainLabelChars, 1, Len(s)))

\* Lines 63-71: what normalizeUrl returns for a trimmed text with no scheme.
AddScheme(trimmed) ==
    IF baredomainPattern(trimmed) /\ ~StartsWith(trimmed, Str(<<"w", "w", "w", ".">>))
    THEN Str(<<"h", "t", "t", "p", "s", ":", "/", "/", "w", "w", "w", ".">>) \o trimmed
    ELSE Str(<<"h", "t", "t", "p", "s", ":", "/", "/">>) \o trimmed

\* Lines 57-61: the text is trimmed and returned as it is when it has a scheme.
NormalizeTrimmed(trimmed) ==
    IF HasHttpScheme(trimmed) THEN trimmed ELSE AddScheme(trimmed)

\* A plausible slip: the text is not trimmed.
normalizeUrl_NoTrim(text) == NormalizeTrimmed(text)

\* normalizeUrl(url)
normalizeUrl(text) == NormalizeTrimmed(Trim(text))

\* getCacheKey(url)
getCacheKey(text) == Str(<<"h", "e", "a", "d", "e", "r", "-", "a", "n", "a", "l", "y", "s", "i", "s", ":">>) \o normalizeUrl(text)

(* new URL(text) for http and https URLs without credentials, port, query,
   fragment, percent escapes and dot segments: the scheme in lower case, the
   host up to the first slash, the path from there on. *)

\* Characters a host cannot hold.
ForbiddenHostChars ==
    (0..32) \cup {34, 35, 37, 47, 58, 60, 62, 63, 64, 91, 92, 93, 94, 96, 123, 124, 125, 127}

\* The URL whose host starts at h and ends before slash (0: at the end).
UrlParts(s, scheme, h, slash) ==
    [ok |-> TRUE,
     protocol |-> scheme,
     origin |-> ToLower(SubSeq(s, 1, IF slash = 0 THEN Len(s) ELSE slash - 1)),
     pathname |-> IF slash = 0 THEN Str(<<"/">>) ELSE SubSeq(s, slash, Len(s))]

\* new URL throws a TypeError.
UrlFailure == [ok |-> FALSE]

\* The host starts at h: it has to be non-empty and free of forbidden
\* characters.
UrlHost(s, scheme, h, slash) ==
    IF h > Len(s) \/ slash = h THEN UrlFailure
    ELSE IF FirstIn(s, ForbiddenHostChars, h, IF slash = 0 THEN Len(s) ELSE slash - 1) /= 0
    THEN UrlFailure
    ELSE UrlParts(s, scheme, h, slash)

\* new URL(s)
NewURL(s) ==
    IF StartsWith(ToLower(s), Str(<<"h", "t", "t", "p", ":", "/", "/">>))
    THEN UrlHost(s, "http:", 8, FirstIn(s, {47}, 8, Len(s)))
    ELSE IF StartsWith(ToLower(s), Str(<<"h", "t", "t", "p", "s", ":", "/", "/">>))
    THEN UrlHost(s, "https:", 9, FirstIn(s, {47}, 9, Len(s)))
    ELSE UrlFailure

\* isValidUrl(url)
isValidUrl(text) ==
    /\ NewURL(text).ok
    /\ NewURL(text).protocol \in {"http:", "https:"}

----------------------------------------------------------------------------
(* app.ts: the analyze and clear-cache endpoints over the HEADER_CACHE store *)

\* c.json(body, status)
Reply(status, body) == [status |-> status, body |-> body]

\* No response has been returned yet.
NoReply == [none |-> TRUE]

\* The synthetic issue of the HTTP-only response (lines 74-81).
IssueHttpOnly ==
    [name |-> "HTTP Only (No HTTPS)", severity |-> "high",
     header |-> "Transport Protocol", current_value |-> "HTTP",
     recommended_value |-> "HTTPS",
     explanation |-> "This site is not using HTTPS. Migrate to HTTPS immediately for basic security."]

\* fetchResult.message (the texts are left out of the FetchResult shapes).
MessageOf(fetchResult) == "fetchResult.message"

\* A plausible slip: the edge branch is missing, so that an edge response
\* falls through to the analysis.
BranchReply_NoCdnBranch(fetchResult) ==
    IF IsHTTPOnly(fetchResult)
    THEN Reply(200, [score |-> 10, summary |-> MessageOf(fetchResult),
                     issues |-> <<IssueHttpOnly>>])
    ELSE IF IsAsset(fetchResult)
    THEN Reply(200, [score |-> 0, summary |-> "Unable to analyze: This URL points to an asset file, not a web page.", issues |-> <<>>,
                     warning |-> [type |-> "asset", message |-> MessageOf(fetchResult),
                                  details |-> [extension |-> fetchResult.extension]]])
    ELSE IF IsNon200(fetchResult)
    THEN Reply(200, [score |-> 0, summary |-> "Unable to analyze: The server returned a non-success response.", issues |-> <<>>,
                     warning |-> [type |-> "non-200", message |-> MessageOf(fetchResult),
                                  details |-> [statusCode |-> fetchResult.statusCode]]])
    ELSE IF IsBotProtection(fetchResult)
    THEN Reply(200, [score |-> 0, summary |-> "Unable to analyze: Bot protection or challenge detected.", issues |-> <<>>,
                     warning |-> [type |-> "bot-protection", message |-> MessageOf(fetchResult),
                                  details |-> [detectedServer |-> fetchResult.detectedType]]])
    ELSE NoReply

\* Lines 70-148: the response of the branch a FetchResult takes, or NoReply
\* when no branch returns and the headers go on to the analysis.
BranchReply(fetchResult) ==
    IF IsHTTPOnly(fetchResult)
    THEN Reply(200, [score |-> 10, summary |-> MessageOf(fetchResult),
                     issues |-> <<IssueHttpOnly>>])
    ELSE IF IsAsset(fetchResult)
    THEN Reply(200, [score |-> 0, summary |-> "Unable to analyze: This URL points to an asset file, not a web page.", issues |-> <<>>,
                     warning |-> [type |-> "asset", message |-> MessageOf(fetchResult),
                                  details |-> [extension |-> fetchResult.extension]]])
    ELSE IF IsNon200(fetchResult)
    THEN Reply(200, [score |-> 0, summary |-> "Unable to analyze: The server returned a non-success response.", issues |-> <<>>,
                     warning |-> [type |-> "non-200", message |-> MessageOf(fetchResult),
                                  details |-> [statusCode |-> fetchResult.statusCode]]])
    ELSE IF IsBotProtection(fetchResult)
    THEN Reply(200, [score |-> 0, summary |-> "Unable to analyze: Bot protection or challenge detected.", issues |-> <<>>,
                     warning |-> [type |-> "bot-protection", message |-> MessageOf(fetchResult),
                                  details |-> [detectedServer |-> fetchResult.detectedType]]])
    ELSE IF IsCDN(fetchResult)
    THEN Reply(200, [score |-> 0, summary |-> "Unable to analyze: CDN edge response detected.", issues |-> <<>>,
                     warning |-> [type |-> "cdn", message |-> MessageOf(fetchResult),
                                  details |-> [detectedServer |-> fetchResult.detectedServer,
                                               headerCount |-> fetchResult.headerCount]]])
    ELSE NoReply

(* The HEADER_CACHE store: a map from keys to texts. *)

EmptyStore == <<>>

\* A plausible slip: the text is written in two parts, the first of which is
\* in the store when the write is seen.
StorePut_FirstHalf(store, key, text) ==
    [k \in DOMAIN store \cup {key} |->
        IF k = key THEN SubSeq(text, 1, Len(text) \div 2) ELSE store[k]]

\* HEADER_CACHE.put(key, text, {expirationTtl: 86400})
StorePut(store, key, text) ==
    [k \in DOMAIN store \cup {key} |-> IF k = key THEN text ELSE store[k]]

\* HEADER_CACHE.delete(key); also what the expiry of an entry does.
StoreDelete(store, key) == [k \in DOMAIN store \ {key} |-> store[k]]

\* HEADER_CACHE.get(key, "json"): the stored text parsed, or null.
StoreGetJson(store, key) ==
    IF key \in DOMAIN store THEN JSONparse(store[key]) ELSE Ok(JNull, 0)

\* if (cached): a parsed value that is an object or an array is truthy, and so
\* is true, a number other than 0 and a string other than "".
IsTruthyJson(v) ==
    CASE v.t \in {"obj", "arr"} -> TRUE
      [] v.t = "bool" -> v.b
      [] v.t = "num" -> v.m /= 0
      [] v.t = "str" -> v.s /= <<>>
      [] v.t = "null" -> FALSE

----------------------------------------------------------------------------
(* The requests of the model *)

\* Most requests in flight or answered.
NumRequests == 2

\* body.url as sent: a bare domain, the same site written out with spaces
\* around it, an http URL, an asset, and a text that is no URL.
RawUrls ==
    {Str(<<"a", ".", "i", "o">>), Str(<<" ", "h", "t", "t", "p", "s", ":", "/", "/", "w", "w", "w", ".", "a", ".", "i", "o", " ">>), Str(<<"h", "t", "t", "p", ":", "/", "/", "a", ".", "i", "o">>), Str(<<"a", ".", "i", "o", "/", "x", ".", "P", "N", "G">>), Str(<<"a", " ", "b">>)}

\* The bodies of analyze requests: each URL, or none, without bypass, and the
\* bare domain with bypass (body.bypass_cache === true or the query parameter
\* bypass_cache=true).
AnalyzeBodies ==
    {[url |-> u, bypass |-> FALSE] : u \in RawUrls \cup {Null}}
    \cup {[url |-> Str(<<"a", ".", "i", "o">>), bypass |-> TRUE]}

\* The bodies of clear-cache requests.
ClearBodies ==
    {[url |-> u] : u \in {Str(<<"a", ".", "i", "o">>), Str(<<" ", "h", "t", "t", "p", "s", ":", "/", "/", "w", "w", "w", ".", "a", ".", "i", "o", " ">>), Str(<<"h", "t", "t", "p", ":", "/", "/", "a", ".", "i", "o">>), Null}}

\* What fetchWithSmartFallback settles with for a page that is probed: a 404,
\* a sparse sample that no alternate path improved, a bot-protection server,
\* a page with eight headers; or it throws.
ProbedResults ==
    {FirstProbeDecision(AltNotFound),
     SparseResult(AltSparse, AltSparse),
     FirstProbeDecision(AltRichEdge),
     FirstResult(AltRich)}

\* fetchWithSmartFallback(url) settles: the FetchResult, or Pending for a
\* rejection.
FetchSettlements(u) ==
    IF EntryDecision(u) /= Pending THEN {EntryDecision(u)}
    ELSE ProbedResults \cup {Pending}

\* What analyzeHeaders resolves with: a result of the generation model that
\* passed the shape test, or the fixed degraded result.
Analyses == {Result(JInt(7), Str(<<"a", " ", "b">>), <<IssueHsts>>), Degraded}

\* A slot no request has arrived in.
NoRequest == [kind |-> "none", pc |-> "idle"]

\* A request in its handler.
Request(kind, body, at, key, fetchResult, analysis, response, steps) ==
    [kind |-> kind, body |-> body, pc |-> at, key |-> key,
     fetchResult |-> fetchResult, analysis |-> analysis,
     response |-> response, steps |-> steps]

\* Lines 19-44 of the analyze handler: the request after the checks on the
\* body, before the first await on the cache or on the fetch.
AnalyzeEntry(body) ==
    IF ~Truthy(body.url)
    THEN Request("analyze", body, "done", Null, Pending, JNull,
                 Reply(400, [error |-> "URL is required"]), <<>>)
    ELSE IF ~isValidUrl(normalizeUrl(body.url))
    THEN Request("analyze", body, "done", Null, Pending, JNull,
                 Reply(400, [error |-> "Invalid URL format"]), <<"normalize">>)
    ELSE Request("analyze", body, IF body.bypass THEN "fetch" ELSE "lookup",
                 getCacheKey(normalizeUrl(body.url)), Pending, JNull, NoReply,
                 <<"normalize">>)

\* A plausible slip: the key is made of the URL as sent.
ClearEntry_RawKey(body) ==
    IF Truthy(body.url)
    THEN Request("clear", body, "delete", Str(<<"h", "e", "a", "d", "e", "r", "-", "a", "n", "a", "l", "y", "s", "i", "s", ":">>) \o body.url,
                 Pending, JNull, NoReply, <<"normalize">>)
    ELSE Request("clear", body, "done", Null, Pending, JNull,
                 Reply(400, [error |-> "URL is required"]), <<>>)

\* Lines 188-197 of the clear-cache handler, before the await on the cache.
ClearEntry(body) ==
    IF Truthy(body.url)
    THEN Request("clear", body, "delete", getCacheKey(normalizeUrl(body.url)),
                 Pending, JNull, NoReply, <<"normalize">>)
    ELSE Request("clear", body, "done", Null, Pending, JNull,
                 Reply(400, [error |-> "URL is required"]), <<>>)

\* Requests are numbered in the order they arrive.
MayArrive(i) ==
    /\ reqs[i] = NoRequest
    /\ i > 1 => reqs[i - 1] /= NoRequest

\* POST /api/analyze arrives and runs up to its first await.
AnalyzeArrives(i) ==
    /\ MayArrive(i)
    /\ \E body \in AnalyzeBodies : reqs' = [reqs EXCEPT ![i] = AnalyzeEntry(body)]
    /\ UNCHANGED <<cache, degradedKeys>>

\* A plausible slip: the answer of the cache is not looked at.
LookupStep_AlwaysMiss(r, cached) ==
    [r EXCEPT !.pc = "fetch", !.steps = Append(r.steps, "lookup")]

\* Lines 34-41: the cache answers; a hit is returned as it is.
LookupStep(r, cached) ==
    IF cached.ok /\ IsTruthyJson(cached.v)
    THEN [r EXCEPT !.pc = "done", !.response = Reply(200, cached.v),
                   !.steps = r.steps \o <<"lookup", "respond">>]
    ELSE IF cached.ok
    THEN [r EXCEPT !.pc = "fetch", !.steps = Append(r.steps, "lookup")]
    ELSE [r EXCEPT !.pc = "done", !.steps = Append(r.steps, "lookup"),
                   !.response = Reply(500, [error |-> "Failed to analyze URL."])]

CacheAnswers(i) ==
    /\ reqs[i].pc = "lookup"
    /\ reqs' = [reqs EXCEPT ![i] = LookupStep(reqs[i], StoreGetJson(cache, reqs[i].key))]
    /\ UNCHANGED <<cache, degradedKeys>>

\* A plausible slip: the branches on the variant of the result are skipped.
FetchStep_AnalyzesAll(r, fetchResult, reply) ==
    IF fetchResult = Pending
    THEN [r EXCEPT !.pc = "done", !.steps = Append(r.steps, "classify"),
                   !.response = Reply(400, [error |-> "Failed to fetch URL."])]
    ELSE [r EXCEPT !.pc = "generate", !.fetchResult = fetchResult,
                   !.steps = Append(r.steps, "classify")]

\* Lines 48-151: fetchWithSmartFallback settles; a rejection is answered with
\* status 400, a disqualifying result with the response of its branch, and the
\* headers of a usable result go to analyzeHeaders.
FetchStep(r, fetchResult, reply) ==
    IF fetchResult = Pending
    THEN [r EXCEPT !.pc = "done", !.steps = Append(r.steps, "classify"),
                   !.response = Reply(400, [error |-> "Failed to fetch URL."])]
    ELSE IF reply /= NoReply
    THEN [r EXCEPT !.pc = "done", !.fetchResult = fetchResult,
                   !.steps = r.steps \o <<"classify", "respond">>,
                   !.response = reply]
    ELSE [r EXCEPT !.pc = "generate", !.fetchResult = fetchResult,
                   !.steps = Append(r.steps, "classify")]

FetchSettles(i) ==
    /\ reqs[i].pc = "fetch"
    /\ \E fetchResult \in FetchSettlements(NewURL(normalizeUrl(reqs[i].body.url))) :
           reqs' = [reqs EXCEPT ![i] = FetchStep(reqs[i], fetchResult, BranchReply(fetchResult))]
    /\ UNCHANGED <<cache, degradedKeys>>

\* Line 154: analyzeHeaders resolves (it preprocesses the headers, calls the
\* generation model and recovers the reply); the put on the cache is issued.
AnalysisResolves(i) ==
    /\ reqs[i].pc = "generate"
    /\ \E analysis \in Analyses :
           reqs' = [reqs EXCEPT ![i].analysis = analysis, ![i].pc = "store",
                        ![i].steps = reqs[i].steps \o <<"preprocess", "generate", "parse">>]
    /\ UNCHANGED <<cache, degradedKeys>>

\* A plausible slip: the degraded result is returned but not stored.
StoreSettles_SkipsDegraded(i) ==
    /\ reqs[i].pc = "store"
    /\ cache' = IF reqs[i].analysis = Degraded THEN cache
                ELSE StorePut(cache, reqs[i].key, Stringify(reqs[i].analysis))
    /\ UNCHANGED degradedKeys
    /\ reqs' = [reqs EXCEPT ![i].pc = "done",
                     ![i].response = Reply(200, reqs[i].analysis),
                     ![i].steps = reqs[i].steps \o <<"store", "respond">>]

\* Lines 156-162: the put takes effect and the analysis is returned.
StoreSettles(i) ==
    /\ reqs[i].pc = "store"
    /\ cache' = StorePut(cache, reqs[i].key, Stringify(reqs[i].analysis))
    /\ degradedKeys' = IF reqs[i].analysis = Degraded
                       THEN degradedKeys \cup {reqs[i].key}
                       ELSE degradedKeys
    /\ reqs' = [reqs EXCEPT ![i].pc = "done",
                     ![i].response = Reply(200, reqs[i].analysis),
                     ![i].steps = reqs[i].steps \o <<"store", "respond">>]

\* POST /api/clear-cache arrives and runs up to its await.
ClearArrives(i) ==
    /\ MayArrive(i)
    /\ \E body \in ClearBodies : reqs' = [reqs EXCEPT ![i] = ClearEntry(body)]
    /\ UNCHANGED <<cache, degradedKeys>>

\* Lines 193-194: the delete takes effect and success is returned.
DeleteSettles(i) ==
    /\ reqs[i].pc = "delete"
    /\ cache' = StoreDelete(cache, reqs[i].key)
    /\ degradedKeys' = degradedKeys \ {reqs[i].key}
    /\ reqs' = [reqs EXCEPT ![i].pc = "done",
                     ![i].response = Reply(200, [success |-> TRUE]),
                     ![i].steps = reqs[i].steps \o <<"delete", "respond">>]

\* An entry reaches its expirationTtl and the store drops it.
Expires ==
    /\ \E key \in DOMAIN cache :
           /\ cache' = StoreDelete(cache, key)
           /\ degradedKeys' = degradedKeys \ {key}
    /\ UNCHANGED reqs

InitApp ==
    /\ cache = EmptyStore
    /\ degradedKeys = {}
    /\ reqs = [i \in 1..NumRequests |-> NoRequest]
    /\ ClassifyIdle
    /\ RecoverIdle
    /\ PreprocessIdle

NextApp ==
    \/ \E i \in 1..NumRequests : AnalyzeArrives(i) /\ UNCHANGED <<cvars, rvars, pvars>>
    \/ \E i \in 1..NumRequests : CacheAnswers(i) /\ UNCHANGED <<cvars, rvars, pvars>>
    \/ \E i \in 1..NumRequests : FetchSettles(i) /\ UNCHANGED <<cvars, rvars, pvars>>
    \/ \E i \in 1..NumRequests : AnalysisResolves(i) /\ UNCHANGED <<cvars, rvars, pvars>>
    \/ \E i \in 1..NumRequests : StoreSettles(i) /\ UNCHANGED <<cvars, rvars, pvars>>
    \/ \E i \in 1..NumRequests : ClearArrives(i) /\ UNCHANGED <<cvars, rvars, pvars>>
    \/ \E i \in 1..NumRequests : DeleteSettles(i) /\ UNCHANGED <<cvars, rvars, pvars>>
    \/ Expires /\ UNCHANGED <<cvars, rvars, pvars>>

SpecApp == InitApp /\ [][NextApp]_vars

\* The namespace after earlier requests: the analysis of a.io fell back on
\* the degraded result, the analysis of b.io passed the shape test.
WarmKey == getCacheKey(normalizeUrl(Str(<<"a", ".", "i", "o">>)))

OtherKey == getCacheKey(normalizeUrl(Str(<<"b", ".", "i", "o">>)))

WarmStore ==
    [k \in {WarmKey, OtherKey} |->
        IF k = WarmKey THEN Stringify(Degraded)
        ELSE Stringify(Result(JInt(100), <<>>, <<>>))]

InitAppWarm ==
    /\ cache = WarmStore
    /\ degradedKeys = {WarmKey}
    /\ reqs = [i \in 1..NumRequests |-> NoRequest]
    /\ ClassifyIdle
    /\ RecoverIdle
    /\ PreprocessIdle

SpecAppWarm == InitAppWarm /\ [][NextApp]_vars

----------------------------------------------------------------------------
(* Properties of classification, checked under SpecClassify *)

\* The first probe has completed (the call is past line 190).
FirstCompleted == pc /= "start" /\ pc /= "probe1" /\ site /= NoSite /\ site.first.ok

\* The first response has status 200 and fewer than MinHeaders headers.
FirstSparse200 ==
    /\ site.first.status = 200
    /\ HeaderCount(headersToObject(site.first.headers)) < MinHeaders

\* An alternate-path answer with status 200 and at least MinHeaders headers.
RichAnswer(a) ==
    a.ok /\ a.status = 200 /\ HeaderCount(headersToObject(a.headers)) >= MinHeaders

\* The first response matches the bot-protection heuristic.
FirstLooksLikeBot ==
    isBotProtectionResponse(headersToObject(site.first.headers), site.first.status) /= NoBot

\* The first response declares a content type that is neither HTML nor XHTML.
FirstNonHtml ==
    LET ct == ContentTypeOf(headersToObject(site.first.headers))
    IN  ct /= Null /\ ~Includes(ct, Str(<<"t", "e", "x", "t", "/", "h", "t", "m", "l">>)) /\ ~Includes(ct, Str(<<"a", "p", "p", "l", "i", "c", "a", "t", "i", "o", "n", "/", "x", "h", "t", "m", "l">>))

\* The first response's server header matches the CDN-edge signature.
FirstLooksLikeCdn == IsCdnServer(ServerHeaderOf(headersToObject(site.first.headers)))

\* C1: for a plaintext-http URL the call resolves with the HttpOnly outcome
\* and never issues a probe, whatever the path.
C1_HttpOnlyWithoutProbe ==
    url.protocol = "http:" =>
        /\ probes = <<>>
        /\ site = NoSite
        /\ ~thrown
        /\ pc \in {"start", "done"}
        /\ (pc = "done" => outcome = HTTPOnlyWarning)

\* C1 witness: an http URL whose path ends in an asset extension was classified.
C1_Witness ==
    /\ pc = "done"
    /\ url.protocol = "http:"
    /\ EndsWith(url.pathname, Str(<<".", "p", "n", "g">>))
    /\ IsHTTPOnly(outcome)

\* C2: for an https URL whose path ends, case-insensitively, in a known asset
\* extension the call resolves with the Asset outcome carrying that extension
\* and never issues a probe.
C2_AssetWithoutProbe ==
    \A i \in DOMAIN assetExtensions :
        (url.protocol = "https:" /\ EndsWith(ToLower(url.pathname), assetExtensions[i])) =>
            /\ probes = <<>>
            /\ site = NoSite
            /\ ~thrown
            /\ pc \in {"start", "done"}
            /\ (pc = "done" => outcome = AssetURLWarning(assetExtensions[i]))

\* C2 witness: an https URL with an upper-case asset extension was classified.
C2_Witness ==
    /\ pc = "done"
    /\ url.protocol = "https:"
    /\ url.pathname = Str(<<"/", "A", ".", "P", "N", "G">>)
    /\ outcome = AssetURLWarning(Str(<<".", "p", "n", "g">>))

\* C3: a first probe with status 503 or 429 is classified BotProtection
\* (possible WAF for 503, rate limited for 429), not NonSuccess.
C3_BotProtectionPrecedence ==
    (pc = "done" /\ FirstCompleted /\ site.first.status \in {429, 503}) =>
        /\ IsBotProtection(outcome)
        /\ ~IsNon200(outcome)
        /\ (site.first.status = 429 => outcome.detectedType = "Rate Limited (429)")
        /\ (site.first.status = 503 =>
                outcome.detectedType = "Service Unavailable (503) - Possible WAF/bot protection")

\* C4: a first probe whose final status is not 200 is classified NonSuccess
\* with exactly that status code and status text, and no further probe is issued.
C4_NonSuccessCarriesStatus ==
    (FirstCompleted /\ site.first.status /= 200) =>
        /\ pc = "done"
        /\ ~thrown
        /\ outcome = Non200StatusWarning(site.first.status, site.first.statusText)
        /\ Len(probes) = 1

\* C4 witness: a first probe ended in 404 and the call resolved.
C4_Witness ==
    /\ pc = "done"
    /\ FirstCompleted
    /\ site.first.status = 404
    /\ IsNon200(outcome)
    /\ outcome.statusCode = 404
    /\ outcome.statusText = Str(<<"N", "o", "t", " ", "F", "o", "u", "n", "d">>)

\* C5 as stated: a sparse status-200 first probe and an alternate path that
\* answers 200 with at least 5 headers yield Usable with the headers and
\* content type of such an alternate-path answer.
C5_Original ==
    (pc = "done" /\ FirstCompleted /\ FirstSparse200
        /\ \E j \in DOMAIN altPaths : RichAnswer(site.alts[j])) =>
        /\ IsUsable(outcome)
        /\ \E j \in DOMAIN altPaths :
            /\ RichAnswer(site.alts[j])
            /\ outcome.headers = headersToObject(site.alts[j].headers)
            /\ outcome.contentType = ContentTypeOf(headersToObject(site.alts[j].headers))

\* C5 (amended): when in addition the first response matches none of the
\* earlier checks (bot protection, non-HTML content type, CDN-edge server),
\* the call resolves Usable with the headers and content type of the first
\* alternate path, in order, that answers 200 with at least 5 headers.
C5_UsableFromFirstRichAlternate ==
    (pc = "done" /\ FirstCompleted /\ FirstSparse200
        /\ ~FirstLooksLikeBot /\ ~FirstNonHtml /\ ~FirstLooksLikeCdn
        /\ \E j \in DOMAIN altPaths : RichAnswer(site.alts[j])) =>
        LET j == CHOOSE k \in DOMAIN altPaths :
                    /\ RichAnswer(site.alts[k])
                    /\ \A m \in 1..(k - 1) : ~RichAnswer(site.alts[m])
        IN  /\ IsUsable(outcome)
            /\ ~thrown
            /\ outcome.response = site.alts[j]
            /\ outcome.headers = headersToObject(site.alts[j].headers)
            /\ outcome.contentType = ContentTypeOf(headersToObject(site.alts[j].headers))
            /\ outcome.headers /= headersToObject(site.first.headers)

\* C5 witness: a 3-header first response, a failing first candidate, and the
\* 8-header answer of the second candidate returned as Usable.
C5_Witness ==
    /\ pc = "done"
    /\ FirstCompleted
    /\ site.first.status = 200
    /\ HeaderCount(headersToObject(site.first.headers)) = 3
    /\ ~site.alts[1].ok
    /\ site.alts[2] = AltRich
    /\ IsUsable(outcome)
    /\ HeaderCount(outcome.headers) = 8
    /\ Len(probes) = 3

\* C6 as stated: a sparse status-200 first probe whose alternate paths all
\* fail, answer non-200 or stay sparse yields EdgeResponse with the first
\* probe's header count.
C6_Original ==
    (pc = "done" /\ FirstCompleted /\ FirstSparse200
        /\ \A j \in DOMAIN altPaths : ~RichAnswer(site.alts[j])) =>
        /\ IsCDN(outcome)
        /\ outcome.headerCount = HeaderCount(headersToObject(site.first.headers))

\* C6 (amended): when in addition the first response does not match the
\* bot-protection heuristic and its content type is absent or HTML/XHTML,
\* the call resolves EdgeResponse with the first probe's header count.
C6_EdgeResponseKeepsFirstCount ==
    (pc = "done" /\ FirstCompleted /\ FirstSparse200
        /\ ~FirstLooksLikeBot /\ ~FirstNonHtml
        /\ \A j \in DOMAIN altPaths : ~RichAnswer(site.alts[j])) =>
        /\ IsCDN(outcome)
        /\ ~thrown
        /\ outcome.headerCount = HeaderCount(headersToObject(site.first.headers))

\* C6 witness: a 3-header first response, all four candidates probed, some
\* failing and some sparse, and EdgeResponse reporting 3 headers.
C6_Witness ==
    /\ pc = "done"
    /\ FirstCompleted
    /\ site.first.status = 200
    /\ HeaderCount(headersToObject(site.first.headers)) = 3
    /\ ~site.alts[1].ok
    /\ site.alts[2] = AltSparse
    /\ Len(probes) = 5
    /\ IsCDN(outcome)
    /\ outcome.headerCount = 3

----------------------------------------------------------------------------
(* Properties of recovery, checked under SpecRecover *)

\* v is an object whose score is a number, summary a string and issues an
\* array.
HasValidShape(v) ==
    /\ v.t = "obj"
    /\ \E i \in DOMAIN v.o : v.o[i].k = K_score /\ v.o[i].v.t = "num"
    /\ \E i \in DOMAIN v.o : v.o[i].k = K_summary /\ v.o[i].v.t = "str"
    /\ \E i \in DOMAIN v.o : v.o[i].k = K_issues /\ v.o[i].v.t = "arr"

\* v is the fixed degraded result: score 50, the stock summary, exactly one
\* issue named "Analysis Error" of medium severity.
IsFixedDegraded(v) ==
    /\ v = Degraded
    /\ MemberOf(v, K_score) = JInt(50)
    /\ EndsWith(MemberOf(v, K_summary).s, Str(<<"m", "o", "d", "e", "r", "a", "t", "e", " ", "s", "e", "c", "u", "r", "i", "t", "y", " ", "c", "o", "n", "c", "e", "r", "n", "s", ".">>))
    /\ Len(MemberOf(v, K_issues).a) = 1
    /\ MemberOf(MemberOf(v, K_issues).a[1], Str(<<"n", "a", "m", "e">>)) = JStr(Str(<<"A", "n", "a", "l", "y", "s", "i", "s", " ", "E", "r", "r", "o", "r">>))
    /\ MemberOf(MemberOf(v, K_issues).a[1], Str(<<"s", "e", "v", "e", "r", "i", "t", "y">>)) = JStr(Str(<<"m", "e", "d", "i", "u", "m">>))

\* C7: whatever ai.run produced (a text, a rejection, nothing), the call
\* resolves, never rejects, and its value is either an object with a numeric
\* score, a string summary and an array of issues, or the fixed degraded
\* result.
C7_NeverRejects ==
    rpc = "done" =>
        /\ ~trace.rejected
        /\ HasValidShape(result) \/ IsFixedDegraded(result)
        /\ trace.degraded => IsFixedDegraded(result)

\* C7 witness: a text whose first parse met a raw control character and whose
\* repaired form did not parse either was answered with the degraded result.
C7_Witness ==
    /\ rpc = "done"
    /\ gen.kind = "text"
    /\ trace.parses = 2
    /\ trace.repaired
    /\ trace.degraded
    /\ result = Degraded

\* The trimmed, fence-stripped form of the reply ends with } or ].
EndsLikeJson(text) ==
    LET t == NormalizeReply(text)
    IN  t /= <<>> /\ t[Len(t)] \in {125, 93}

\* C8: a reply whose trimmed, fence-stripped form does not end with } or ]
\* yields the fixed degraded result, and no JSON.parse and no repair pass is
\* run on it.
C8_TruncatedNotParsed ==
    (rpc = "done" /\ gen.kind = "text" /\ ~EndsLikeJson(gen.text)) =>
        /\ IsFixedDegraded(result)
        /\ trace.degraded
        /\ trace.parses = 0
        /\ ~trace.repaired
        /\ ~trace.rejected

\* C8 witness: a valid reply that lost only its closing brace was answered
\* with the degraded result.
C8_Witness ==
    /\ rpc = "done"
    /\ src.kind = "truncated"
    /\ gen.kind = "text"
    /\ gen.text = SubSeq(src.doc, 1, Len(src.doc) - 1)
    /\ src.doc[Len(src.doc)] = 125
    /\ result = Degraded
    /\ trace.parses = 0

\* C9: the JSON serialization of a valid result (numeric score, string
\* summary, array of issues) is recovered to a value equal to that result, by
\* a single parse, with no repair and no fallback.
C9_RoundTrip ==
    (rpc = "done" /\ src.kind = "serialized") =>
        /\ HasValidShape(src.r)
        /\ gen = Text(Stringify(src.r))
        /\ result = src.r
        /\ ~trace.degraded
        /\ ~trace.repaired
        /\ ~trace.rejected
        /\ trace.parses = 1

\* C9 witness: a result whose summary mentions a fence marker and whose
\* issues hold quotes, a line feed, a tab, a backslash and a null was
\* serialized and recovered.
C9_Witness ==
    /\ rpc = "done"
    /\ src.kind = "serialized"
    /\ MemberOf(src.r, K_summary) = JStr(Str(<<"TICK", "TICK", "TICK", "j", "s", "o", "n">>))
    /\ MemberOf(src.r, K_issues) = JArr(<<IssueHsts, IssueFrame>>)
    /\ MemberOf(src.r, K_score) = JNum(755, -1)
    /\ result = src.r
    /\ gen.text /= Stringify(Degraded)

\* C10: a text wrapped in a triple-backtick fence (with or without the
\* language tag, with or without line feeds around it) is recovered to the
\* same result as the text itself.
C10_FencedSameAsUnfenced ==
    (rpc = "done" /\ src.kind = "fenced") =>
        /\ gen = Text(Wrap(src.style, src.inner))
        /\ result = TryCatch(TryBlock(Text(src.inner))).value

\* C11: a reply that is the JSON string literal of a valid result's
\* serialization is decoded once and recovered to that result.
C11_DoubleEncodedRecovered ==
    (rpc = "done" /\ src.kind = "doubled") =>
        /\ StartsWith(gen.text, <<34>>) /\ EndsWith(gen.text, <<34>>)
        /\ result = src.r
        /\ ~trace.degraded

\* The text holds a raw control character.
HasRawControl(text) == \E i \in DOMAIN text : text[i] < 32

\* C12: a reply that is well formed but for raw control characters inside its
\* string literals is recovered, not degraded, and the decoded strings hold
\* those characters where they stood.
C12_RawControlsRecovered ==
    (rpc = "done" /\ src.kind = "rawctl" /\ HasRawControl(gen.text)) =>
        /\ result = src.r
        /\ ~trace.degraded

----------------------------------------------------------------------------
(* Further properties of classification, checked under SpecClassify *)

\* o is a FetchResult: one of the six variants.
IsFetchResult(o) ==
    IsHTTPOnly(o) \/ IsAsset(o) \/ IsNon200(o) \/ IsBotProtection(o) \/ IsCDN(o) \/ IsUsable(o)

\* C13: the call throws exactly when the first probe fails at transport
\* level, and then returns no FetchResult; when the first probe completes,
\* whatever the alternate-path probes do, the call returns a FetchResult and
\* does not throw.
C13_TransportFailureThrown ==
    /\ thrown =>
        /\ pc = "done"
        /\ site /= NoSite /\ ~site.first.ok
        /\ ~IsFetchResult(outcome)
    /\ (pc = "done" /\ site /= NoSite /\ ~site.first.ok) => thrown
    /\ (pc = "done" /\ site /= NoSite /\ site.first.ok) =>
        ~thrown /\ IsFetchResult(outcome)

\* C13 witness: the first probe failed at transport level and the call threw.
C13_Witness ==
    /\ pc = "done"
    /\ site /= NoSite
    /\ site.first = TransportFailure
    /\ Len(probes) = 1
    /\ thrown
    /\ outcome = Pending

\* The response r matches the bot-protection heuristic.
LooksLikeBot(r) == isBotProtectionResponse(headersToObject(r.headers), r.status) /= NoBot

\* The response r declares a content type that is neither HTML nor XHTML.
DeclaresNonHtml(r) ==
    /\ ContentTypeOf(headersToObject(r.headers)) /= Null
    /\ ~Includes(ContentTypeOf(headersToObject(r.headers)), Str(<<"t", "e", "x", "t", "/", "h", "t", "m", "l">>))
    /\ ~Includes(ContentTypeOf(headersToObject(r.headers)), Str(<<"a", "p", "p", "l", "i", "c", "a", "t", "i", "o", "n", "/", "x", "h", "t", "m", "l">>))

\* The server header of the response r matches the CDN-edge signature.
LooksLikeCdn(r) == IsCdnServer(ServerHeaderOf(headersToObject(r.headers)))

\* C16: the response a Usable outcome came from, be it the first response or
\* that of an alternate path, has status 200, does not match the
\* bot-protection heuristic, has no content type or an HTML/XHTML one, and a
\* server header that does not match the CDN-edge signature.
C16_UsableIsRepresentative ==
    (pc = "done" /\ IsUsable(outcome)) =>
        /\ outcome.response.status = 200
        /\ outcome.headers = headersToObject(outcome.response.headers)
        /\ ~LooksLikeBot(outcome.response)
        /\ ~DeclaresNonHtml(outcome.response)
        /\ ~LooksLikeCdn(outcome.response)

\* C20: on a first response with status 200 the checks run in the order
\* bot protection, non-HTML content type, CDN-edge signature, sparse headers;
\* the outcome is that of the earliest step that matches, and an alternate
\* path is probed only when none of the first three matched and the headers
\* are sparse.
C20_PriorityOrder ==
    (FirstCompleted /\ site.first.status = 200) =>
        /\ LooksLikeBot(site.first) =>
            /\ pc = "done" /\ Len(probes) = 1
            /\ outcome = BotProtectionWarning(
                   isBotProtectionResponse(headersToObject(site.first.headers), 200))
        /\ (~LooksLikeBot(site.first) /\ DeclaresNonHtml(site.first)) =>
            /\ pc = "done" /\ Len(probes) = 1
            /\ IsNon200(outcome)
            /\ outcome.statusCode = 200
            /\ StartsWith(outcome.statusText, Str(<<"N", "o", "n", "-", "H", "T", "M", "L", " ", "C", "o", "n", "t", "e", "n", "t", " ", "(">>))
        /\ (~LooksLikeBot(site.first) /\ ~DeclaresNonHtml(site.first)
                /\ LooksLikeCdn(site.first)) =>
            /\ pc = "done" /\ Len(probes) = 1
            /\ IsCDN(outcome)
            /\ outcome.headerCount = HeaderCount(headersToObject(site.first.headers))
        /\ (~LooksLikeBot(site.first) /\ ~DeclaresNonHtml(site.first)
                /\ ~LooksLikeCdn(site.first)) =>
            IF FirstSparse200
            THEN Len(probes) > 1 /\ (pc = "done" => IsCDN(outcome) \/ IsUsable(outcome))
            ELSE pc = "done" /\ Len(probes) = 1 /\ outcome = FirstResult(site.first)
        /\ Len(probes) > 1 =>
            /\ ~LooksLikeBot(site.first)
            /\ ~DeclaresNonHtml(site.first)
            /\ ~LooksLikeCdn(site.first)
            /\ FirstSparse200

\* C20 witness: a sparse first response that matched the bot-protection
\* heuristic, declared JSON and carried a CDN-edge server header was
\* classified as bot protection without a further probe.
C20_Witness ==
    /\ pc = "done"
    /\ FirstCompleted
    /\ site.first.status = 200
    /\ LooksLikeBot(site.first)
    /\ DeclaresNonHtml(site.first)
    /\ LooksLikeCdn(site.first)
    /\ FirstSparse200
    /\ IsBotProtection(outcome)
    /\ Len(probes) = 1

----------------------------------------------------------------------------
(* Properties of the header preprocessor, checked under SpecPreprocess *)

\* The number of the given cookies whose text holds token, in any case.
Holding(cookies, token) ==
    Cardinality({i \in DOMAIN cookies :
        \E k \in 1..Len(cookies[i]) : MatchAt(ToLower(cookies[i]), token, k)})

\* C17: for a set-cookie value that folds cookies separated by commas, total
\* is the number of cookies, and secure, httpOnly and sameSite are the numbers
\* of cookies that hold the attribute's name in any case.
C17_CookieCounts ==
    (pout /= NoOutput /\ pin.folded /\ pin.cookies /= <<>>) =>
        /\ pout.metadata.cookieStats.total = Len(pin.cookies)
        /\ pout.metadata.cookieStats.secure = Holding(pin.cookies, Str(<<"s", "e", "c", "u", "r", "e">>))
        /\ pout.metadata.cookieStats.httpOnly = Holding(pin.cookies, Str(<<"h", "t", "t", "p", "o", "n", "l", "y">>))
        /\ pout.metadata.cookieStats.sameSite = Holding(pin.cookies, Str(<<"s", "a", "m", "e", "s", "i", "t", "e">>))

\* C18: the four counts are natural numbers, none above total; all are 0
\* when the map has no set-cookie header; rawHeaders is the map given.
C18_CookieStatsBounded ==
    pout /= NoOutput =>
        /\ pout.metadata.cookieStats.total \in Nat
        /\ pout.metadata.cookieStats.secure \in 0..pout.metadata.cookieStats.total
        /\ pout.metadata.cookieStats.httpOnly \in 0..pout.metadata.cookieStats.total
        /\ pout.metadata.cookieStats.sameSite \in 0..pout.metadata.cookieStats.total
        /\ H_setCookie \notin DOMAIN pin.headers =>
               pout.metadata.cookieStats =
                   [total |-> 0, secure |-> 0, httpOnly |-> 0, sameSite |-> 0]
        /\ pout.rawHeaders = pin.headers

\* C18 witness: a map with two folded cookies, both Secure, and other headers
\* was preprocessed.
C18_Witness ==
    /\ pout /= NoOutput
    /\ H_setCookie \in DOMAIN pin.headers
    /\ H_hsts \in DOMAIN pin.headers
    /\ pout.metadata.cookieStats.total = 2
    /\ pout.metadata.cookieStats.secure = 2
    /\ pout.metadata.cookieStats.sameSite = 0
    /\ pout.rawHeaders = pin.headers

----------------------------------------------------------------------------
(* Properties of the analyze and clear-cache endpoints *)

\* The FetchResult is one of the five disqualifying variants.
IsDisqualifying(o) ==
    IsHTTPOnly(o) \/ IsAsset(o) \/ IsNon200(o) \/ IsBotProtection(o) \/ IsCDN(o)

\* The warning type and the details fields the interface gives each variant.
WarningTypeOf(o) ==
    IF IsHTTPOnly(o) THEN "http-only"
    ELSE IF IsAsset(o) THEN "asset"
    ELSE IF IsNon200(o) THEN "non-200"
    ELSE IF IsBotProtection(o) THEN "bot-protection"
    ELSE "cdn"

DetailsOf(o) ==
    IF IsHTTPOnly(o) THEN {}
    ELSE IF IsAsset(o) THEN {"extension"}
    ELSE IF IsNon200(o) THEN {"statusCode"}
    ELSE IF IsBotProtection(o) THEN {"detectedServer"}
    ELSE {"detectedServer", "headerCount"}

\* The request was answered from the branch of a disqualifying FetchResult.
AnsweredDisqualified(r) ==
    r.kind = "analyze" /\ r.pc = "done" /\ IsDisqualifying(r.fetchResult)

\* C14: the response to a disqualifying FetchResult has score 0 or 10 and a
\* warning whose type names the variant (http-only, asset, non-200,
\* bot-protection, cdn) and whose details are those of the variant.
C14_WarningPerVariant ==
    \A i \in DOMAIN reqs :
        AnsweredDisqualified(reqs[i]) =>
            /\ reqs[i].response.body.score \in {0, 10}
            /\ "warning" \in DOMAIN reqs[i].response.body
            /\ reqs[i].response.body.warning.type = WarningTypeOf(reqs[i].fetchResult)
            /\ \/ "details" \notin DOMAIN reqs[i].response.body.warning
                  /\ DetailsOf(reqs[i].fetchResult) = {}
               \/ "details" \in DOMAIN reqs[i].response.body.warning
                  /\ DOMAIN reqs[i].response.body.warning.details
                         = DetailsOf(reqs[i].fetchResult)

\* The variants a FetchResult is populated as.
VariantsOf(o) ==
    {v \in {"HttpOnly", "Asset", "NonSuccess", "BotProtection", "EdgeResponse", "Usable"} :
        CASE v = "HttpOnly" -> IsHTTPOnly(o)
          [] v = "Asset" -> IsAsset(o)
          [] v = "NonSuccess" -> IsNon200(o)
          [] v = "BotProtection" -> IsBotProtection(o)
          [] v = "EdgeResponse" -> IsCDN(o)
          [] v = "Usable" -> IsUsable(o)}

\* The analyze request of the bare domain at the point where
\* fetchWithSmartFallback settles.
AwaitingFetch ==
    [AnalyzeEntry([url |-> Str(<<"a", ".", "i", "o">>), bypass |-> TRUE]) EXCEPT !.steps = <<"normalize">>]

\* The handler's step on the outcome of the classification.
HandledOutcome == FetchStep(AwaitingFetch, outcome, BranchReply(outcome))

\* A FetchResult of each disqualifying variant.
DisqualifyingSamples ==
    {HTTPOnlyWarning, AssetURLWarning(Str(<<".", "p", "n", "g">>)), Non200StatusWarning(404, Str(<<"N", "o", "t", " ", "F", "o", "u", "n", "d">>)),
     BotProtectionWarning("Rate Limited (429)"), CDNDetectionResult(Str(<<"u", "n", "k", "n", "o", "w", "n">>), 0)}

\* The FetchResult o is of one variant, and the handler's step h on it ends
\* in the branch of that variant.
OneVariantOneBranch(o, h) ==
    /\ Cardinality(VariantsOf(o)) = 1
    /\ IsUsable(o) <=> h.pc = "generate"
    /\ IsDisqualifying(o) <=> h.pc = "done"
    /\ IsDisqualifying(o) =>
           /\ h.response /= NoReply
           /\ h.response.status = 200
           /\ h.steps = <<"normalize", "classify", "respond">>
           /\ \A d \in DisqualifyingSamples :
                  VariantsOf(d) /= VariantsOf(o) => BranchReply(d) /= h.response

\* C15: a FetchResult returned by the classification is exactly one of the
\* six variants; the handler answers each disqualifying variant from its own
\* branch without the analysis, and only a usable result goes on to it.
C15_OneVariantOneBranch ==
    (pc = "done" /\ ~thrown) => OneVariantOneBranch(outcome, HandledOutcome)

\* The classification returned an edge response after all five probes, and
\* the handler's step h answers it from the edge branch.
EdgeAnswered(h) ==
    /\ pc = "done"
    /\ ~thrown
    /\ IsCDN(outcome)
    /\ Len(probes) = 5
    /\ h.pc = "done"
    /\ h.response.body.warning.type = "cdn"

\* C15 witness: an edge response is answered from the edge branch.
C15_Witness == EdgeAnswered(HandledOutcome)

\* The requests that wrote their analysis into the cache.
Writers == {i \in DOMAIN reqs : reqs[i].kind = "analyze" /\ reqs[i].pc = "done"
                                 /\ reqs[i].response = Reply(200, reqs[i].analysis)
                                 /\ reqs[i].analysis /= JNull}

\* The text is the whole serialisation of the analysis of a writer of key.
WrittenInFull(key, text) ==
    \E i \in Writers :
        /\ reqs[i].key = key
        /\ text = Stringify(reqs[i].analysis)
        /\ JSONparse(text) = Ok(reqs[i].analysis, Len(text) + 1)
        /\ ShapeOk(reqs[i].analysis)

\* C19: under any interleaving of analyze and clear-cache requests, every
\* entry of the cache is the complete result of a request that produced it,
\* and a step changes an entry only by replacing it with such a result or by
\* deleting it.
C19_EntriesWhole ==
    /\ [](\A key \in DOMAIN cache : WrittenInFull(key, cache[key]))
    /\ [][\A key \in DOMAIN cache :
             \/ key \notin DOMAIN cache'
             \/ cache'[key] = cache[key]
             \/ \E i \in DOMAIN reqs :
                    /\ reqs[i].pc = "store" /\ reqs'[i].pc = "done"
                    /\ reqs[i].key = key
                    /\ cache'[key] = Stringify(reqs[i].analysis)]_vars

\* C19 witness: two analyze requests of the same site, written differently,
\* both stored their results, which differ; the entry is that of the request
\* that arrived first and stored last.
C19_Witness ==
    /\ Len(reqs) >= 2
    /\ {1, 2} \subseteq Writers
    /\ reqs[1].key = reqs[2].key
    /\ reqs[1].body.url /= reqs[2].body.url
    /\ reqs[1].analysis /= reqs[2].analysis
    /\ reqs[1].key \in DOMAIN cache
    /\ cache[reqs[1].key] = Stringify(reqs[1].analysis)

----------------------------------------------------------------------------
(* The escalation over the alternate paths, checked under SpecClassify *)

\* The probe of the k-th alternate path, counted in the fixed order.
CandidateProbe(k) ==
    Probe(url.origin,
          CASE k = 1 -> Str(<<"/", "e", "n", "-", "u", "s", "/">>)
            [] k = 2 -> Str(<<"/", "i", "n", "d", "e", "x", ".", "h", "t", "m", "l">>)
            [] k = 3 -> Str(<<"/", "h", "o", "m", "e">>)
            [] k = 4 -> Str(<<"/", "a", "b", "o", "u", "t">>))

\* The k-th alternate path has been probed.
Probed(k) == Len(probes) >= k + 1

\* The probe in flight, if any, is the last one issued.
InFlight == IF pc \in {"probe1", "alt"} THEN {Len(probes)} ELSE {}

\* C21: the alternate paths are probed one at a time, in the order /en-us/,
\* /index.html, /home, /about, on the origin of the URL given; after a
\* candidate that fails or is not a 200 with at least 5 headers the next one
\* is probed; after a candidate that is, none is.
C21_CandidatesInOrder ==
    /\ Len(probes) <= 1 + 4
    /\ \A k \in 1..4 : Probed(k) => probes[k + 1] = CandidateProbe(k)
    /\ pc = "alt" => Len(probes) = altIdx + 1 /\ InFlight = {altIdx + 1}
    /\ \A k \in 1..4 :
           (Probed(k) /\ (pc = "done" \/ altIdx > k)) =>
               IF site.alts[k].ok /\ RichAnswer(site.alts[k])
               THEN /\ ~Probed(k + 1)
                    /\ pc = "done"
                    /\ outcome = RetryResult(site.alts[k], res)
               ELSE /\ k < 4 => Probed(k + 1)
                    /\ ~thrown
                    /\ k = 4 => pc = "done" /\ IsCDN(outcome)
    /\ \A k \in 2..4 : Probed(k) => ~(site.alts[k - 1].ok /\ RichAnswer(site.alts[k - 1]))

\* C21 witness: the first candidate failed, the second was sparse, the third
\* answered 200 with 8 headers and was returned; the fourth, which would have
\* answered as well, was not probed.
C21_Witness ==
    /\ pc = "done"
    /\ site /= NoSite
    /\ site.alts[1] = TransportFailure
    /\ site.alts[2] = AltSparse
    /\ site.alts[3] = AltRich
    /\ site.alts[4] = AltRich
    /\ probes = <<Probe(url.origin, url.pathname), CandidateProbe(1),
                  CandidateProbe(2), CandidateProbe(3)>>
    /\ IsUsable(outcome)
    /\ outcome.response = site.alts[3]

\* C22: a call issues at most five probes, the first and at most one per
\* alternate path, and probes no URL twice.
C22_AtMostFiveDistinctProbes ==
    /\ Len(probes) <= 5
    /\ \A i, j \in DOMAIN probes : i /= j => probes[i] /= probes[j]

----------------------------------------------------------------------------
(* The repair pass and the shape test, checked under SpecRecover *)

\* One character of a scan that follows the JSON grammar: a backslash inside
\* a string quotes the next character, and any quote not so quoted opens or
\* closes a string. inString is the state before the character.
LiteralStep(s, i, st) ==
    IF st.escapeNext
    THEN [inString |-> st.inString, escapeNext |-> FALSE, result |-> Append(st.result, s[i])]
    ELSE IF s[i] = 92 /\ st.inString
    THEN [inString |-> TRUE, escapeNext |-> TRUE, result |-> Append(st.result, s[i])]
    ELSE IF s[i] = 34
    THEN [inString |-> ~st.inString, escapeNext |-> FALSE, result |-> Append(st.result, s[i])]
    ELSE IF st.inString
    THEN [inString |-> TRUE, escapeNext |-> FALSE,
          result |-> st.result \o EscapeInString(s[i])]
    ELSE [inString |-> FALSE, escapeNext |-> FALSE, result |-> Append(st.result, s[i])]

RECURSIVE LiteralScan(_, _, _, _)
\* The scan over the characters lo..hi, from state st.
LiteralScan(s, lo, hi, st) ==
    IF lo > hi THEN st
    ELSE IF lo = hi THEN LiteralStep(s, lo, st)
    ELSE LET half == LiteralScan(s, lo, (lo + hi) \div 2, st)
         IN  IF half.inString \in BOOLEAN
             THEN LiteralScan(s, (lo + hi) \div 2 + 1, hi, half)
             ELSE half

ScanStart == [inString |-> FALSE, escapeNext |-> FALSE, result |-> <<>>]

\* The text the first JSON.parse is given (line 128).
JsonTextOf(g) == DecodeOnce(NormalizeReply(g.text)).v

\* The positions of jsonText before which the loop's inString flag differs
\* from the string-literal state.
FlagDiffers(jsonText) ==
    {i \in DOMAIN jsonText :
        RepairScan(jsonText, 1, i - 1, ScanStart).inString
            /= LiteralScan(jsonText, 1, i - 1, ScanStart).inString}

\* C23: in the repair pass the inString flag is the string-literal state at
\* every position, so that exactly the control characters inside string
\* literals are rewritten and all else passes through unchanged.
C23_FlagIsLiteralState ==
    (rpc = "done" /\ trace.repaired) =>
        /\ FlagDiffers(JsonTextOf(gen)) = {}
        /\ RepairControlChars(JsonTextOf(gen))
               = LiteralScan(JsonTextOf(gen), 1, Len(JsonTextOf(gen)), ScanStart).result

\* The members the shape test reads, as typeof and Array.isArray see them.
ScoreIsNumber(v) ==
    v.t = "obj" /\ \E i \in DOMAIN v.o : v.o[i].k = K_score /\ v.o[i].v.t = "num"
SummaryIsString(v) ==
    v.t = "obj" /\ \E i \in DOMAIN v.o : v.o[i].k = K_summary /\ v.o[i].v.t = "str"
IssuesIsArray(v) ==
    v.t = "obj" /\ \E i \in DOMAIN v.o : v.o[i].k = K_issues /\ v.o[i].v.t = "arr"

\* C24: a parsed value whose score is not a number, or whose summary is not a
\* string, or whose issues is not an array yields the degraded result; any
\* other parsed value is returned as it is, its score unchanged whatever the
\* number.
C24_ShapeTestThenAsIs ==
    (rpc = "done" /\ src.kind \in {"serialized", "value"}) =>
        /\ trace.parses = 1
        /\ ~trace.repaired
        /\ IF ScoreIsNumber(src.r) /\ SummaryIsString(src.r) /\ IssuesIsArray(src.r)
           THEN /\ result = src.r
                /\ MemberOf(result, K_score) = MemberOf(src.r, K_score)
                /\ ~trace.degraded
           ELSE /\ result = Degraded
                /\ trace.degraded

\* C24 witness: an array that holds a valid result was parsed and answered
\* with the degraded result.
C24_Witness ==
    /\ rpc = "done"
    /\ src.kind = "value"
    /\ src.r = JArr(<<Result(JInt(7), Str(<<"a", " ", "b">>), <<>>)>>)
    /\ trace.parses = 1
    /\ result = Degraded

----------------------------------------------------------------------------
(* Properties of one request against the cache, checked under SpecApp *)

\* The order of the steps of an analyze request.
PipelineOrder ==
    <<"normalize", "lookup", "classify", "preprocess", "generate", "parse",
      "store", "respond">>

Rank(step) == CHOOSE k \in DOMAIN PipelineOrder : PipelineOrder[k] = step

\* The steps taken are steps of the pipeline, each later in the order than
\* the one before.
InPipelineOrder(steps) ==
    /\ \A j \in DOMAIN steps : \E k \in DOMAIN PipelineOrder : PipelineOrder[k] = steps[j]
    /\ \A j \in 1..(Len(steps) - 1) : Rank(steps[j]) < Rank(steps[j + 1])

Took(r, step) == \E j \in DOMAIN r.steps : r.steps[j] = step

AnalyzeRequests == {i \in DOMAIN reqs : reqs[i].kind = "analyze"}

\* Request i is answered by this step.
Answers(i) == reqs[i].response = NoReply /\ reqs'[i].response /= NoReply

\* C25: the steps of an analyze request come in the order normalize, lookup,
\* classify, preprocess, generate, parse, store, respond. A lookup that finds
\* an entry is answered with the value the entry serializes, with no probe and no
\* generation call. A request that generated an analysis is answered in the
\* step in which its put takes effect, and the entry then holds the value
\* returned.
C25_PipelineOrder ==
    /\ [](\A i \in AnalyzeRequests :
             /\ InPipelineOrder(reqs[i].steps)
             /\ (reqs[i].response /= NoReply /\ reqs[i].steps /= <<>>
                 /\ reqs[i].response.status /= 400 /\ reqs[i].response.status /= 500)
                    => reqs[i].steps[Len(reqs[i].steps)] = "respond"
             /\ (reqs[i].response /= NoReply /\ Took(reqs[i], "generate"))
                    => Took(reqs[i], "store"))
    /\ [][\A i \in AnalyzeRequests :
             /\ (reqs[i].pc = "lookup" /\ reqs'[i] /= reqs[i]
                 /\ reqs[i].key \in DOMAIN cache)
                    => /\ reqs'[i].response /= NoReply
                       /\ reqs'[i].response.status = 200
                       /\ Stringify(reqs'[i].response.body) = cache[reqs[i].key]
                       /\ reqs'[i].steps = <<"normalize", "lookup", "respond">>
                       /\ reqs'[i].pc = "done"
                       /\ cache' = cache
             /\ (reqs[i].pc = "lookup" /\ reqs'[i] /= reqs[i]
                 /\ reqs[i].key \notin DOMAIN cache)
                    => reqs'[i].pc = "fetch" /\ reqs'[i].response = NoReply
             /\ (Answers(i) /\ Took(reqs[i], "generate"))
                    => /\ reqs[i].key \in DOMAIN cache'
                       /\ cache'[reqs[i].key] = Stringify(reqs'[i].response.body)
                       /\ reqs'[i].response.status = 200]_vars

\* C25 witness: the first request missed, generated, stored and answered;
\* the second, written differently and not bypassing, was answered from the
\* entry without a probe.
C25_Witness ==
    /\ Len(reqs) >= 2
    /\ reqs[1].kind = "analyze" /\ reqs[1].pc = "done"
    /\ reqs[1].steps = <<"normalize", "lookup", "classify", "preprocess",
                         "generate", "parse", "store", "respond">>
    /\ reqs[2].kind = "analyze" /\ reqs[2].pc = "done"
    /\ ~reqs[2].body.bypass
    /\ reqs[2].body.url /= reqs[1].body.url
    /\ reqs[2].steps = <<"normalize", "lookup", "respond">>
    /\ reqs[2].response = Reply(200, reqs[1].analysis)
    /\ reqs[2].fetchResult = Pending
    /\ reqs[2].analysis = JNull

\* The request was turned away: no URL, an invalid URL, a fetch that
\* rejected, or a disqualifying FetchResult.
TurnedAway(r) ==
    /\ r.kind = "analyze"
    /\ r.response /= NoReply
    /\ \/ r.response.status = 400
       \/ IsDisqualifying(r.fetchResult)

\* Request i puts its analysis of a usable FetchResult in this step.
UsablePut(i) ==
    /\ reqs[i].kind = "analyze"
    /\ IsUsable(reqs[i].fetchResult)
    /\ ~IsDisqualifying(reqs[i].fetchResult)
    /\ Took(reqs[i], "generate")
    /\ reqs[i].response = NoReply
    /\ reqs'[i].response = Reply(200, reqs[i].analysis)

\* C26: a request that is turned away (HTTP-only, asset, non-200, bot
\* protection, CDN edge, fetch rejected, URL missing or invalid) made no
\* generation call and no put, and the step that answers it leaves the cache
\* as it was; the cache changes only by the put of a request with a usable
\* FetchResult, by a clear-cache request or by expiry.
C26_WritesOnlyWhenUsable ==
    /\ [](\A i \in DOMAIN reqs :
             TurnedAway(reqs[i]) =>
                 /\ ~Took(reqs[i], "generate")
                 /\ ~Took(reqs[i], "preprocess")
                 /\ ~Took(reqs[i], "store")
                 /\ reqs[i].analysis = JNull
                 /\ reqs[i].pc = "done")
    /\ [][/\ \A i \in DOMAIN reqs :
                (reqs'[i] /= reqs[i] /\ TurnedAway(reqs'[i])) => cache' = cache
          /\ cache' /= cache =>
                \/ \E i \in DOMAIN reqs : UsablePut(i)
                \/ \E i \in DOMAIN reqs : reqs[i].kind = "clear" /\ reqs'[i] /= reqs[i]
                \/ reqs' = reqs /\ DOMAIN cache' \subseteq DOMAIN cache]_vars

\* C26 witness: the first request stored its analysis; the second, bypassing
\* the cache for the same key, met the sparse edge sample and was turned
\* away, and the entry is still that of the first.
C26_Witness ==
    /\ Len(reqs) >= 2
    /\ 1 \in Writers
    /\ reqs[2].kind = "analyze" /\ reqs[2].body.bypass
    /\ reqs[2].key = reqs[1].key
    /\ TurnedAway(reqs[2])
    /\ IsCDN(reqs[2].fetchResult)
    /\ reqs[2].steps = <<"normalize", "classify", "respond">>
    /\ cache = StorePut(EmptyStore, reqs[1].key, Stringify(reqs[1].analysis))

----------------------------------------------------------------------------
(* Properties of entries over several requests, checked under SpecAppWarm *)

\* Request i takes a step from the position at.
StepsFrom(i, at) == reqs[i].kind = "analyze" /\ reqs[i].pc = at /\ reqs'[i] /= reqs[i]

\* Request i is answered with the degraded result from the cache, with no
\* probe and no generation call.
AnsweredDegradedFromCache(i) ==
    /\ reqs'[i].pc = "done"
    /\ reqs'[i].response = Reply(200, Degraded)
    /\ IsFixedDegraded(reqs'[i].response.body)
    /\ reqs'[i].steps = <<"normalize", "lookup", "respond">>
    /\ reqs'[i].fetchResult = Pending
    /\ reqs'[i].analysis = JNull
    /\ cache' = cache

\* C27 as stated: once the degraded result was stored under a key, every
\* lookup of that key before the entry expires or is cleared is answered
\* with the degraded result.
C27_DegradedUntilExpiryOrClear ==
    [][\A i \in DOMAIN reqs :
          (StepsFrom(i, "lookup") /\ reqs[i].key \in degradedKeys)
              => AnsweredDegradedFromCache(i)]_vars

\* C27 amended: an analysis that fell back on the degraded result is stored
\* under the key of the URL like any other, and a lookup that finds the
\* degraded entry in place is answered with it, with no probe and no
\* generation call.
C27_DegradedWhileInPlace ==
    [][\A i \in DOMAIN reqs :
          /\ (StepsFrom(i, "store") /\ reqs[i].analysis = Degraded)
                => /\ reqs[i].key \in DOMAIN cache'
                   /\ cache'[reqs[i].key] = Stringify(Degraded)
                   /\ reqs'[i].response = Reply(200, Degraded)
          /\ (StepsFrom(i, "lookup") /\ reqs[i].key \in DOMAIN cache
              /\ cache[reqs[i].key] = Stringify(Degraded))
                => AnsweredDegradedFromCache(i)]_vars

\* C27 witness: the first request bypassed the cache, fell back on the
\* degraded result on a usable sample and stored it over the entry; the
\* second looked the key up and was answered with the degraded result.
C27_Witness ==
    /\ Len(reqs) >= 2
    /\ reqs[1].kind = "analyze" /\ reqs[1].pc = "done"
    /\ reqs[1].body.bypass
    /\ IsUsable(reqs[1].fetchResult)
    /\ reqs[1].analysis = Degraded
    /\ Took(reqs[1], "store")
    /\ reqs[2].kind = "analyze" /\ reqs[2].pc = "done"
    /\ reqs[2].key = reqs[1].key
    /\ reqs[2].steps = <<"normalize", "lookup", "respond">>
    /\ reqs[2].response = Reply(200, Degraded)
    /\ reqs[2].key \in degradedKeys

\* Request i arrives in this step.
Arrives(i) == reqs[i].kind = "none" /\ reqs'[i].kind /= "none"

\* The key analyze(u) reads and writes.
AnalyzeKey(u) == AnalyzeEntry([url |-> u, bypass |-> FALSE]).key

\* The store without the entry of key, every other entry as it was.
WithoutExactly(store, key) ==
    [k \in DOMAIN store \ {key} |-> store[k]]

\* C28: a request keeps the key it arrived with, which for clear-cache(u) is
\* the key analyze(u) reads and writes; clear-cache(u) deletes the entry of
\* that key and no other; normalizing a normalized URL changes nothing; a
\* lookup of a key that has no entry, as after clear-cache(u), misses and
\* goes on to a fresh acquisition; an analyze request with bypass_cache set
\* makes no lookup and puts its result under the same key.
C28_KeyConsistency ==
    /\ [](\A i \in DOMAIN reqs :
             (reqs[i].kind = "analyze" /\ reqs[i].body.bypass)
                 => ~Took(reqs[i], "lookup"))
    /\ [][\A i \in DOMAIN reqs :
             /\ (Arrives(i) /\ Truthy(reqs'[i].body.url))
                    => normalizeUrl(normalizeUrl(reqs'[i].body.url))
                           = normalizeUrl(reqs'[i].body.url)
             /\ (Arrives(i) /\ reqs'[i].key /= Null)
                    => reqs'[i].key = AnalyzeKey(reqs'[i].body.url)
             /\ reqs[i].kind /= "none"
                    => reqs'[i].key = reqs[i].key /\ reqs'[i].body = reqs[i].body
             /\ (reqs[i].kind = "clear" /\ reqs[i].pc = "delete" /\ reqs'[i] /= reqs[i])
                    => /\ cache' = WithoutExactly(cache, reqs[i].key)
                       /\ reqs'[i].response = Reply(200, [success |-> TRUE])
             /\ (StepsFrom(i, "lookup") /\ reqs[i].key \notin DOMAIN cache)
                    => /\ reqs'[i].pc = "fetch"
                       /\ reqs'[i].response = NoReply
             /\ (StepsFrom(i, "store") /\ reqs[i].body.bypass)
                    => /\ cache' = StorePut(cache, reqs[i].key,
                                            Stringify(reqs'[i].response.body))
                       /\ reqs'[i].response.status = 200]_vars

\* C28 witness: clear-cache of the site written with spaces deleted the
\* degraded entry and left the other; the analyze request of the same text
\* then missed, acquired, generated and stored a result under the key.
C28_Witness ==
    /\ Len(reqs) >= 2
    /\ reqs[1].kind = "clear" /\ reqs[1].pc = "done"
    /\ reqs[1].body.url = Str(<<" ", "h", "t", "t", "p", "s", ":", "/", "/", "w", "w", "w", ".", "a", ".", "i", "o", " ">>)
    /\ reqs[2].kind = "analyze" /\ reqs[2].pc = "done"
    /\ reqs[2].body.url = reqs[1].body.url
    /\ reqs[2].steps = <<"normalize", "lookup", "classify", "preprocess",
                         "generate", "parse", "store", "respond">>
    /\ reqs[2].key = WarmKey
    /\ reqs[2].analysis /= Degraded
    /\ cache = StorePut(WarmStore, WarmKey, Stringify(reqs[2].analysis))
    /\ degradedKeys = {}
====
